---- MODULE Spec2Model ----
(***************************************************************************)
(* The deterministic layout placement engine of ReTexture:                 *)
(*   Agents/app/core/spatial_grid.py        Rectangle, Element, SpatialGrid*)
(*   Agents/app/core/placement_constraints.py  ConstraintScorer            *)
(*   Agents/app/core/space_analyzer.py      SpaceAnalyzer                  *)
(*   Agents/app/core/placement_generator.py CandidateGenerator             *)
(*   Agents/app/routers/placement.py        smart_placement, RateLimiter   *)
(*                                                                         *)
(* Numbers.  The code computes on Python floats.  Every length of the      *)
(* model is an integer number of 1/Scale pixels, so that the halves and    *)
(* thirds the code takes of integer pixel inputs (canvas / 3, (a - b) / 2, *)
(* (a - b) / 3) are exact.  A score of a candidate of size width x height  *)
(* is carried as the integer  score * width * height  (ScoreUnit), which   *)
(* makes  overlap / area * 40  exact; a density is carried as the occupied *)
(* area, to be compared with the cell area.                                *)
(***************************************************************************)
EXTENDS Integers, Sequences, FiniteSets, TLC

Scale == 2 * 3

Px(n) == n * Scale

\* int(n / d) of Python for d > 0: truncation towards zero
Trunc(n, d) == IF n >= 0 THEN n \div d ELSE -((-n) \div d)

Max(a, b) == IF a >= b THEN a ELSE b
Min(a, b) == IF a <= b THEN a ELSE b

(***************************************************************************)
(* spatial_grid.py: Rectangle                                              *)
(***************************************************************************)
Rectangle(x, y, width, height) ==
    [x |-> x, y |-> y, width |-> width, height |-> height]

x2(r) == r.x + r.width
y2(r) == r.y + r.height
\* twice the centre, so that width / 2 stays an integer
center_x_2(r) == 2 * r.x + r.width
center_y_2(r) == 2 * r.y + r.height
area(r) == r.width * r.height

overlaps(a, b) ==
    /\ a.x < x2(b)
    /\ x2(a) > b.x
    /\ a.y < y2(b)
    /\ y2(a) > b.y

overlap_area(a, b) ==
    IF ~overlaps(a, b) THEN 0
    ELSE Max(0, Min(x2(a), x2(b)) - Max(a.x, b.x))
         * Max(0, Min(y2(a), y2(b)) - Max(a.y, b.y))

Element(rect, element_type, element_id) ==
    [rect |-> rect, element_type |-> element_type, element_id |-> element_id]

(***************************************************************************)
(* spatial_grid.py: SpatialGrid                                            *)
(***************************************************************************)
GRID_SIZE == 3

Cells(grid_size) == (0 .. grid_size - 1) \X (0 .. grid_size - 1)

\* SpatialGrid.__init__
SpatialGrid(canvas_width, canvas_height, grid_size) ==
    [canvas_width |-> canvas_width,
     canvas_height |-> canvas_height,
     grid_size |-> grid_size,
     cell_width |-> canvas_width \div grid_size,
     cell_height |-> canvas_height \div grid_size,
     grid |-> [rc \in Cells(grid_size) |-> <<>>],
     all_elements |-> <<>>]

\* an end cell that leaves the cell of the far edge out
EndCellExclusive(hi, cell, grid_size) == Min(grid_size - 1, Trunc(hi, cell) - 1)

\* the inclusive cell range [start, end] of an interval, as add_element and
\* get_elements_in_region compute it
StartCell(lo, cell) == Max(0, Trunc(lo, cell))
EndCell(hi, cell, grid_size) == Min(grid_size - 1, Trunc(hi, cell))

CellRange(g, x, y, width, height) ==
    { rc \in Cells(g.grid_size) :
        /\ StartCell(y, g.cell_height) <= rc[1]
        /\ rc[1] <= EndCell(y + height, g.cell_height, g.grid_size)
        /\ StartCell(x, g.cell_width) <= rc[2]
        /\ rc[2] <= EndCell(x + width, g.cell_width, g.grid_size) }

add_element(g, x, y, width, height, element_type, element_id) ==
    LET element == Element(Rectangle(x, y, width, height), element_type, element_id)
        range == CellRange(g, x, y, width, height)
    IN [g EXCEPT
          !.all_elements = Append(@, element),
          !.grid = [rc \in Cells(g.grid_size) |->
                      IF rc \in range THEN Append(g.grid[rc], element)
                      ELSE g.grid[rc]]]

RECURSIVE SumOverlap(_, _)
SumOverlap(elems, rect) ==
    IF elems = <<>> THEN 0
    ELSE overlap_area(Head(elems).rect, rect) + SumOverlap(Tail(elems), rect)

CellRect(g, rc) ==
    Rectangle(rc[2] * g.cell_width, rc[1] * g.cell_height, g.cell_width, g.cell_height)

cell_area(g) == g.cell_width * g.cell_height

\* a density map capped at 1.0, a fully occupied cell
get_density_map_capped(g) ==
    [rc \in Cells(g.grid_size) |->
       Min(g.cell_width * g.cell_height, SumOverlap(g.grid[rc], CellRect(g, rc)))]

\* density[row][col] * cell_area: the occupied area of each cell
get_density_map(g) ==
    [rc \in Cells(g.grid_size) |-> SumOverlap(g.grid[rc], CellRect(g, rc))]

SeqRange(s) == { s[i] : i \in 1 .. Len(s) }

get_elements_in_region(g, x, y, width, height) ==
    LET region == Rectangle(x, y, width, height)
        elements_set ==
            { e.element_id :
                e \in { el \in UNION { SeqRange(g.grid[rc]) :
                                         rc \in CellRange(g, x, y, width, height) } :
                          overlaps(el.rect, region) } }
        InSet(e) == e.element_id \in elements_set
    IN SelectSeq(g.all_elements, InSet)

(***************************************************************************)
(* placement_constraints.py: PlacementCandidate, ConstraintScorer          *)
(***************************************************************************)
\* subject_bounds is Optional[Rectangle]: None is <<>>, a rectangle r is <<r>>
None == <<>>
Some(r) == <<r>>

PlacementCandidate(x, y, score, reasoning, method) ==
    [x |-> x, y |-> y, score |-> score, reasoning |-> reasoning, method |-> method]

WEIGHT_HIERARCHY == 50
WEIGHT_COLLISION == 40
BONUS_ALIGNMENT == 10
BONUS_EMPTY_REGION == 15
BONUS_SPACING == 5
SUBHEADING_PENALTY == 15
BADGE_PENALTY == 10
CONTAINED_BONUS == 30
MOSTLY_BONUS == 15
PARTIAL_WEIGHT == 40
OUTSIDE_PENALTY == 100
ALIGN_GRID == 40
ALIGN_TOLERANCE == 5
GOOD_MARGIN == 30
INVALID_SCORE == -100
MAX_SCORE == 100

\* ConstraintScorer.__init__
ConstraintScorer(canvas_width, canvas_height, spatial_grid, subject_bounds) ==
    [canvas_width |-> canvas_width, canvas_height |-> canvas_height,
     grid |-> spatial_grid, subject_bounds |-> subject_bounds]

\* one point of score for a candidate of this size
ScoreUnit(width, height) == width * height

\* a hierarchy check whose thresholds are inclusive (y_percent >= 0.3, ...)
check_hierarchy_inclusive(sc, y, height, element_type) ==
    IF element_type = "headline" THEN
        IF 10 * y >= 3 * sc.canvas_height THEN <<WEIGHT_HIERARCHY, "Headline too low">>
        ELSE IF 20 * y <= 3 * sc.canvas_height
             THEN <<0, "Headline in optimal position (top 15%)">>
             ELSE <<0, "">>
    ELSE IF element_type = "subheading" THEN
        IF 2 * y >= sc.canvas_height THEN <<SUBHEADING_PENALTY, "Subheading too low">>
        ELSE <<0, "">>
    ELSE IF element_type = "badge" THEN
        IF 10 * y >= 3 * sc.canvas_height /\ 10 * y <= 7 * sc.canvas_height
        THEN <<BADGE_PENALTY, "Badge in middle (prefer corners)">>
        ELSE <<0, "">>
    ELSE <<0, "">>

\* a hierarchy check whose headline test is reversed (y_percent < 0.3)
check_hierarchy_reversed(sc, y, height, element_type) ==
    IF element_type = "headline" /\ 10 * y < 3 * sc.canvas_height
    THEN <<WEIGHT_HIERARCHY, "Headline too low">>
    ELSE <<0, "">>

\* (penalty in points, message); y_percent = y / canvas_height
check_hierarchy(sc, y, height, element_type) ==
    IF element_type = "headline" THEN
        IF 10 * y > 3 * sc.canvas_height THEN <<WEIGHT_HIERARCHY, "Headline too low">>
        ELSE IF 20 * y <= 3 * sc.canvas_height
             THEN <<0, "Headline in optimal position (top 15%)">>
             ELSE <<0, "">>
    ELSE IF element_type = "subheading" THEN
        IF 2 * y > sc.canvas_height THEN <<SUBHEADING_PENALTY, "Subheading too low">>
        ELSE <<0, "">>
    ELSE IF element_type = "badge" THEN
        IF 10 * y > 3 * sc.canvas_height /\ 10 * y < 7 * sc.canvas_height
        THEN <<BADGE_PENALTY, "Badge in middle (prefer corners)">>
        ELSE <<0, "">>
    ELSE <<0, "">>

\* a collision check that rewards overlap instead of penalising it
CollisionReward(overlapping_elements, test_rect) ==
    IF overlapping_elements = <<>> THEN <<0, "No collisions">>
    ELSE <<-(WEIGHT_COLLISION * SumOverlap(overlapping_elements, test_rect)), "collision">>

\* (penalty * test_rect.area, message)
CollisionPenalty(overlapping_elements, test_rect) ==
    IF overlapping_elements = <<>> THEN <<0, "No collisions">>
    ELSE <<WEIGHT_COLLISION * SumOverlap(overlapping_elements, test_rect), "collision">>

check_collision(sc, test_rect) ==
    CollisionPenalty(get_elements_in_region(sc.grid, test_rect.x, test_rect.y,
                                            test_rect.width, test_rect.height),
                     test_rect)

\* inside_percent * test_rect.area
InsideArea(test_rect, sb) ==
    IF overlaps(test_rect, sb) THEN overlap_area(test_rect, sb) ELSE 0

\* a containment check that takes the share outside the bounds for the
\* share inside
ContainmentOfOutside(inside, a) ==
    IF 100 * (a - inside) >= 95 * a THEN <<-(CONTAINED_BONUS * a), "Fully inside canvas">>
    ELSE IF 10 * (a - inside) >= 7 * a THEN <<-(MOSTLY_BONUS * a), "Mostly inside canvas">>
    ELSE IF 10 * (a - inside) > a
         THEN <<PARTIAL_WEIGHT * inside, "Partially outside canvas">>
         ELSE <<OUTSIDE_PENALTY * a, "OUTSIDE canvas boundary">>

\* lines 232-247, with inside = inside_percent * a
ContainmentPenalty(inside, a) ==
    IF 100 * inside >= 95 * a THEN <<-(CONTAINED_BONUS * a), "Fully inside canvas">>
    ELSE IF 10 * inside >= 7 * a THEN <<-(MOSTLY_BONUS * a), "Mostly inside canvas">>
    ELSE IF 10 * inside > a
         THEN <<PARTIAL_WEIGHT * (a - inside), "Partially outside canvas">>
         ELSE <<OUTSIDE_PENALTY * a, "OUTSIDE canvas boundary">>

\* (penalty * test_rect.area, message); a negative penalty is a bonus
check_subject_bounds_containment(sc, test_rect, element_type) ==
    IF sc.subject_bounds = None THEN <<0, "">>
    ELSE
      ContainmentPenalty(InsideArea(test_rect, sc.subject_bounds[1]), area(test_rect))

AlignedCoord(v, grid_size) ==
    \/ v % Px(grid_size) < Px(ALIGN_TOLERANCE)
    \/ v % Px(grid_size) > Px(grid_size) - Px(ALIGN_TOLERANCE)

is_grid_aligned(x, y, grid_size) ==
    AlignedCoord(x, grid_size) /\ AlignedCoord(y, grid_size)

\* int((center / canvas_dim) * grid_size), at most grid_size - 1
CenterCell(center_2, canvas_dim, grid_size) ==
    Min(Trunc(center_2 * grid_size, 2 * canvas_dim), grid_size - 1)

is_in_empty_region(sc, test_rect) ==
    10 * get_density_map(sc.grid)[
             <<CenterCell(center_y_2(test_rect), sc.canvas_height, sc.grid.grid_size),
               CenterCell(center_x_2(test_rect), sc.canvas_width, sc.grid.grid_size)>>]
      < 3 * cell_area(sc.grid)

has_good_margins(sc, x, y, width, height, margin) ==
    /\ x >= margin
    /\ y >= margin
    /\ x + width <= sc.canvas_width - margin
    /\ y + height <= sc.canvas_height - margin

OutOfCanvas(sc, x, y, width, height) ==
    \/ x < 0
    \/ y < 0
    \/ x + width > sc.canvas_width
    \/ y + height > sc.canvas_height

\* a scorer that returns the sum as it is
Unclamped(score, unit) == score

\* the clamp of line 139: max(0, min(100, score))
ClampScore(score, unit) == Max(0, Min(MAX_SCORE * unit, score))

NonEmpty(msgs) == SelectSeq(msgs, LAMBDA m : m # "")

\* lines 103-147: the penalties and bonuses are added up and clamped
ScoredCandidate(x, y, unit, hier, coll, cont, aligned, empty, margins) ==
    PlacementCandidate(
        x, y,
        ClampScore(MAX_SCORE * unit - hier[1] * unit - coll[1] - cont[1]
                   + (IF aligned THEN BONUS_ALIGNMENT * unit ELSE 0)
                   + (IF empty THEN BONUS_EMPTY_REGION * unit ELSE 0)
                   + (IF margins THEN BONUS_SPACING * unit ELSE 0),
                   unit),
        NonEmpty(<<hier[2], coll[2], cont[2],
                   IF aligned THEN "Grid aligned" ELSE "",
                   IF empty THEN "Empty region" ELSE "",
                   IF margins THEN "Good margins" ELSE "">>),
        "scored")

score_placement(sc, x, y, width, height, element_type) ==
    IF OutOfCanvas(sc, x, y, width, height)
    THEN PlacementCandidate(x, y, INVALID_SCORE * ScoreUnit(width, height),
                            <<"OUT OF BOUNDS - Invalid">>, "invalid")
    ELSE ScoredCandidate(
             x, y, ScoreUnit(width, height),
             check_hierarchy(sc, y, height, element_type),
             check_collision(sc, Rectangle(x, y, width, height)),
             check_subject_bounds_containment(sc, Rectangle(x, y, width, height),
                                              element_type),
             is_grid_aligned(x, y, ALIGN_GRID),
             is_in_empty_region(sc, Rectangle(x, y, width, height)),
             has_good_margins(sc, x, y, width, height, Px(GOOD_MARGIN)))

(***************************************************************************)
(* Sequences                                                               *)
(***************************************************************************)
RECURSIVE Concat(_)
\* the concatenation of a sequence of sequences
Concat(ss) == IF ss = <<>> THEN <<>> ELSE Head(ss) \o Concat(Tail(ss))

Take(s, n) == SubSeq(s, 1, Min(n, Len(s)))

\* a descending sort that reverses the order of equal keys, as
\* reversed(sorted(..., key=...)) does: the item goes before its equals
InsertBeforeTies(sorted, item) ==
    LET k == Cardinality({ i \in 1 .. Len(sorted) : sorted[i][1] > item[1] })
    IN SubSeq(sorted, 1, k) \o <<item>> \o SubSeq(sorted, k + 1, Len(sorted))

\* where list.sort(key, reverse=True) puts an item of this key among the
\* already sorted items: after every item whose key is at least as large
InsertDesc(sorted, item) ==
    LET k == Cardinality({ i \in 1 .. Len(sorted) : sorted[i][1] >= item[1] })
    IN SubSeq(sorted, 1, k) \o <<item>> \o SubSeq(sorted, k + 1, Len(sorted))

RECURSIVE SortPairsDesc(_, _, _, _)
\* the items todo[lo .. hi] inserted, in their order, into the sorted items
\* done (the range is halved, and done is evaluated on entry, to keep the
\* evaluation shallow)
SortPairsDesc(done, todo, lo, hi) ==
    IF lo > hi \/ Len(done) < 0 THEN done
    ELSE IF lo = hi THEN InsertDesc(done, todo[lo])
    ELSE SortPairsDesc(SortPairsDesc(done, todo, lo, (lo + hi) \div 2),
                       todo, (lo + hi) \div 2 + 1, hi)

\* a stable descending sort of <<key, value>> pairs, as Python's
\* list.sort(key=..., reverse=True); the values are returned
Values(pairs) == [i \in 1 .. Len(pairs) |-> pairs[i][2]]

StableSortDesc(pairs) == Values(SortPairsDesc(<<>>, pairs, 1, Len(pairs)))

(***************************************************************************)
(* space_analyzer.py: FreeSpaceRegion, SpaceAnalyzer                       *)
(***************************************************************************)
REGION_MARGIN == 40
MIN_REGION == 80
FIT_MARGIN == 60
FIT_MARGIN_SMALL == 20
TOP_REGIONS == 3
BOTTOM_INSET == 30
BOTTOM_MIN_INSET == 20
TOP_INSET == 50
BADGE_INSET == 50
IMAGE_TOP_INSET == 40

\* density is carried as density * area: the occupied area, capped at area
FreeSpaceRegion(rect, region_type, region_area, density) ==
    [rect |-> rect, region_type |-> region_type, area |-> region_area,
     density |-> density]

can_fit(region, width, height, margin) ==
    /\ region.rect.width >= width + 2 * margin
    /\ region.rect.height >= height + 2 * margin

SpaceAnalyzer(canvas_width, canvas_height, spatial_grid, subject_bounds) ==
    [canvas_width |-> canvas_width, canvas_height |-> canvas_height,
     grid |-> spatial_grid, subject_bounds |-> subject_bounds]

RECURSIVE LargestImage(_, _, _)
\* the loop of find_product_bounds: product is None (<<>>) or <<element>>
LargestImage(elems, max_area, product) ==
    IF elems = <<>> THEN product
    ELSE LET elem == Head(elems)
         IN IF elem.element_type = "image" /\ area(elem.rect) > max_area
            THEN LargestImage(Tail(elems), area(elem.rect), Some(elem))
            ELSE LargestImage(Tail(elems), max_area, product)

find_product_bounds(sa) ==
    LET product == LargestImage(sa.grid.all_elements, 0, None)
    IN IF product = None THEN None ELSE Some(product[1].rect)

\* subject_bounds or Rectangle(0, 0, canvas_width, canvas_height)
CanvasBounds(sa) ==
    IF sa.subject_bounds # None THEN sa.subject_bounds[1]
    ELSE Rectangle(0, 0, sa.canvas_width, sa.canvas_height)

\* a density that is not capped at 1.0
UncappedDensity(overlapping_elements, region) ==
    SumOverlap(overlapping_elements, region)

\* density * region.area, with the cap min(1.0, ...)
CappedDensity(overlapping_elements, region) ==
    IF overlapping_elements = <<>> THEN 0
    ELSE Min(area(region), SumOverlap(overlapping_elements, region))

calculate_region_density(sa, region) ==
    CappedDensity(get_elements_in_region(sa.grid, region.x, region.y,
                                         region.width, region.height),
                  region)

\* a helper add_region without the minimum usable size
RegionOfAnySize(sa, region_type, rect) ==
    <<FreeSpaceRegion(rect, region_type, area(rect), calculate_region_density(sa, rect))>>

\* the helper add_region: the regions it appends (none or one)
RegionIfUsable(sa, region_type, rect) ==
    IF rect.width > Px(MIN_REGION) /\ rect.height > Px(MIN_REGION)
    THEN <<FreeSpaceRegion(rect, region_type, area(rect),
                           calculate_region_density(sa, rect))>>
    ELSE <<>>

ClampedRegion(canvas, x, y, width0, height0) ==
    Rectangle(x, y, Min(width0, canvas.x + canvas.width - x),
              Min(height0, canvas.y + canvas.height - y))

add_region(sa, canvas, region_type, x0, y0, width0, height0) ==
    RegionIfUsable(sa, region_type,
                   ClampedRegion(canvas, Max(canvas.x, x0), Max(canvas.y, y0),
                                 width0, height0))

\* lines 124-125: sorted by area * (1 - density), best first
SortRegions(regions) ==
    StableSortDesc([i \in 1 .. Len(regions) |->
                      <<regions[i].area - regions[i].density, regions[i]>>])

\* lines 116-122: the regions around the product, in the order they are added
RegionsAround(sa, canvas, product, margin) ==
    add_region(sa, canvas, "top", canvas.x, canvas.y, canvas.width,
               product.y - canvas.y - margin)
    \o add_region(sa, canvas, "bottom", canvas.x,
                  product.y + product.height + margin, canvas.width,
                  canvas.y + canvas.height - (product.y + product.height + margin))
    \o add_region(sa, canvas, "left", canvas.x, canvas.y,
                  product.x - canvas.x - margin, canvas.height)
    \o add_region(sa, canvas, "right", product.x + product.width + margin, canvas.y,
                  canvas.x + canvas.width - (product.x + product.width + margin),
                  canvas.height)

FreeSpaceAround(sa, canvas, found) ==
    IF found = None
    THEN <<FreeSpaceRegion(canvas, "full", area(canvas), 0)>>
    ELSE SortRegions(RegionsAround(sa, canvas, found[1], Px(REGION_MARGIN)))

analyze_free_space(sa) == FreeSpaceAround(sa, CanvasBounds(sa), find_product_bounds(sa))

calculate_position_in_region(region, width, height, element_type) ==
    LET rect == region.rect
    IN IF element_type \in {"headline", "subheading"} THEN
         <<rect.x + (rect.width - width) \div 2,
           IF region.region_type = "bottom"
           THEN Max(rect.y + Px(BOTTOM_MIN_INSET),
                    rect.y + rect.height - height - Px(BOTTOM_INSET))
           ELSE IF region.region_type = "top" THEN rect.y + Px(TOP_INSET)
           ELSE rect.y + (rect.height - height) \div 2>>
       ELSE IF element_type = "badge" THEN
         IF region.region_type \in {"bottom", "top"}
         THEN <<rect.x + Px(BADGE_INSET), rect.y + rect.height - height - Px(BADGE_INSET)>>
         ELSE <<rect.x + Px(BADGE_INSET), rect.y + Px(BADGE_INSET)>>
       ELSE IF element_type \in {"product_image", "image"} THEN
         <<rect.x + (rect.width - width) \div 2,
           IF region.region_type = "top" THEN rect.y + Px(IMAGE_TOP_INSET)
           ELSE rect.y + (rect.height - height) \div 3>>
       ELSE
         <<rect.x + (rect.width - width) \div 2, rect.y + (rect.height - height) \div 2>>

\* lines 158-163: the regions that can fit the element, margin 60 then 20
OrElse(first, second) == IF first = <<>> THEN second ELSE first

FitsWith(free_regions, width, height, margin) ==
    SelectSeq(free_regions, LAMBDA r : can_fit(r, width, height, margin))

FittingRegions(free_regions, width, height) ==
    OrElse(FitsWith(free_regions, width, height, Px(FIT_MARGIN)),
           FitsWith(free_regions, width, height, Px(FIT_MARGIN_SMALL)))

\* lines 165-170: the early return [] for a headline or subheading
ExplicitFailure(free_regions, width, height, element_type) ==
    /\ free_regions # <<>>
    /\ element_type \in {"headline", "subheading"}
    /\ FittingRegions(free_regions, width, height) = <<>>

\* lines 165-171: the fallback to the first (largest) region
OrLargest(fitting, free_regions) ==
    IF fitting = <<>> /\ free_regions # <<>> THEN <<free_regions[1]>> ELSE fitting

\* lines 174-178: bottom regions first for a headline or subheading
BottomFirst(viable, element_type) ==
    IF element_type \in {"headline", "subheading"}
    THEN SelectSeq(viable, LAMBDA r : r.region_type = "bottom")
         \o SelectSeq(viable, LAMBDA r : r.region_type # "bottom")
    ELSE viable

ViableRegions(free_regions, width, height, element_type) ==
    BottomFirst(OrLargest(FittingRegions(free_regions, width, height), free_regions),
                element_type)

\* a validation that keeps every computed position
AnyPosition(canvas, xy, width, height, region_type) ==
    << <<xy[1], xy[2], region_type>> >>

\* lines 189-195: the position is kept when the element stays inside canvas
ValidPosition(canvas, xy, width, height, region_type) ==
    IF /\ canvas.x <= xy[1]
       /\ xy[1] + width <= canvas.x + canvas.width
       /\ canvas.y <= xy[2]
       /\ xy[2] + height <= canvas.y + canvas.height
    THEN << <<xy[1], xy[2], region_type>> >>
    ELSE <<>>

\* lines 185-195, for the regions given
PositionsIn(regions, canvas, width, height, element_type) ==
    Concat([i \in 1 .. Len(regions) |->
              ValidPosition(canvas,
                            calculate_position_in_region(regions[i], width, height,
                                                         element_type),
                            width, height, regions[i].region_type)])

BestPositions(free_regions, canvas, width, height, element_type) ==
    IF ExplicitFailure(free_regions, width, height, element_type) THEN <<>>
    ELSE PositionsIn(Take(ViableRegions(free_regions, width, height, element_type),
                          TOP_REGIONS),
                     canvas, width, height, element_type)

\* a sequence of <<x, y, reasoning>>
get_best_position_for_element(sa, width, height, element_type) ==
    BestPositions(analyze_free_space(sa), CanvasBounds(sa), width, height, element_type)

(***************************************************************************)
(* placement_generator.py: CandidateGenerator                              *)
(***************************************************************************)
GRID_MARGIN == 50
GRID_STEP == 80
ANCHOR_GAP == 20
DEDUP_TOLERANCE == 10
TYPE_MARGIN == 60
HEADLINE_GAP == 100
SUBHEADING_PCTS == <<15, 20, 25>>
MAX_CANDIDATES == 100

CandidateGenerator(canvas_width, canvas_height, spatial_grid, scorer) ==
    [canvas_width |-> canvas_width, canvas_height |-> canvas_height,
     grid |-> spatial_grid, scorer |-> scorer]

Unscored(x, y, method) == PlacementCandidate(x, y, 0, <<>>, method)

RECURSIVE GridColumn(_, _, _, _)
\* the inner while loop of the simple grid: the candidates of one x
GridColumn(gen, x, y, height) ==
    IF y + height <= gen.canvas_height - Px(GRID_MARGIN)
    THEN <<Unscored(x, y, "grid")>> \o GridColumn(gen, x, y + Px(GRID_STEP), height)
    ELSE <<>>

RECURSIVE GridRowsStrict(_, _, _, _)
\* a simple grid that stops before the margin is reached (x + width < ...)
GridRowsStrict(gen, x, width, height) ==
    IF x + width < gen.canvas_width - Px(GRID_MARGIN)
    THEN GridColumn(gen, x, Px(GRID_MARGIN), height)
         \o GridRowsStrict(gen, x + Px(GRID_STEP), width, height)
    ELSE <<>>

RECURSIVE GridRows(_, _, _, _)
\* the outer while loop of the simple grid
GridRows(gen, x, width, height) ==
    IF x + width <= gen.canvas_width - Px(GRID_MARGIN)
    THEN GridColumn(gen, x, Px(GRID_MARGIN), height)
         \o GridRows(gen, x + Px(GRID_STEP), width, height)
    ELSE <<>>

\* one band of the containment bounds: a candidate per sparse grid column
GridBand(gen, sb, row, y, width, method, num, den) ==
    LET density == get_density_map(gen.grid)
        margin == Px(GRID_MARGIN)
        At(j) ==
            LET x == sb.x + j * gen.grid.cell_width + margin
            IN IF den * density[<<row, j>>] < num * cell_area(gen.grid)
                  /\ x + width <= sb.x + sb.width - margin
               THEN <<Unscored(x, y, method)>>
               ELSE <<>>
    IN Concat([k \in 1 .. gen.grid.grid_size |-> At(k - 1)])

generate_grid_based(gen, width, height, element_type) ==
    LET margin == Px(GRID_MARGIN)
    IN IF gen.scorer.subject_bounds # None THEN
         LET sb == gen.scorer.subject_bounds[1]
         IN IF element_type \in {"headline", "subheading"} THEN
              \* density[0][j] < 0.6, density[grid_size - 1][j] < 0.4
              GridBand(gen, sb, 0, sb.y + margin, width, "grid-top", 6, 10)
              \o GridBand(gen, sb, gen.grid.grid_size - 1,
                          sb.y + sb.height - height - margin, width, "grid-bottom", 4, 10)
            ELSE IF element_type = "badge" THEN
              <<Unscored(sb.x + margin, sb.y + sb.height - height - margin, "grid-corner"),
                Unscored(sb.x + sb.width - width - margin,
                         sb.y + sb.height - height - margin, "grid-corner")>>
            ELSE <<>>
       ELSE GridRows(gen, margin, width, height)

\* the candidates generate_anchor_based appends for one existing element
AnchorsOf(elem, width, height, element_type) ==
    LET gap == Px(ANCHOR_GAP)
        r == elem.rect
    IN IF element_type = "subheading" /\ elem.element_type \in {"headline", "text"} THEN
         <<Unscored(r.x, r.y + r.height + gap, "anchor-below-headline"),
           Unscored((center_x_2(r) - width) \div 2, r.y + r.height + gap,
                    "anchor-centered")>>
       ELSE IF element_type = "badge" THEN
         IF elem.element_type # "badge" THEN
           <<Unscored(r.x - width - gap, r.y, "anchor-badge"),
             Unscored(x2(r) + gap, r.y, "anchor-badge"),
             Unscored(r.x, r.y - height - gap, "anchor-badge"),
             Unscored(r.x, y2(r) + gap, "anchor-badge")>>
         ELSE <<>>
       ELSE
         <<Unscored(r.x, y2(r) + gap, "anchor-below"),
           Unscored(r.x, r.y - height - gap, "anchor-above"),
           Unscored(x2(r) + gap, r.y, "anchor-right"),
           Unscored(r.x - width - gap, r.y, "anchor-left")>>

generate_anchor_based(gen, width, height, element_type) ==
    Concat([i \in 1 .. Len(gen.grid.all_elements) |->
              AnchorsOf(gen.grid.all_elements[i], width, height, element_type)])

\* the loop of lines 304-305, 314-315, 322-323, 356-357: a candidate per position
Strategic(positions, prefix) ==
    [i \in 1 .. Len(positions) |->
       Unscored(positions[i][1], positions[i][2], prefix \o positions[i][3])]

\* lines 278-325: the conventional placements inside the subject bounds sb
TypeSpecificWithin(sb, width, height, element_type, margin) ==
    IF element_type = "headline" THEN
      LET y_bottom == sb.y + sb.height - height - margin
      IN Strategic(<< <<sb.x + (sb.width - width) \div 2, y_bottom, "bottom-center">>,
                      <<sb.x + margin, y_bottom, "bottom-left">>,
                      <<sb.x + (sb.width - width) \div 2, sb.y + margin, "top-center">> >>,
                   "strategic-headline-")
    ELSE IF element_type = "subheading" THEN
      Strategic(<< <<sb.x + (sb.width - width) \div 2,
                     sb.y + sb.height - height - margin - Px(HEADLINE_GAP),
                     "mid-bottom-center">> >>,
                "strategic-subheading-")
    ELSE IF element_type = "badge" THEN
      Strategic(<< <<sb.x + margin, sb.y + sb.height - height - margin, "bottom-left">> >>,
                "strategic-badge-")
    ELSE <<>>

\* lines 327-365: the conventional placements on the canvas
TypeSpecificOnCanvas(gen, width, height, element_type, margin) ==
    IF element_type = "headline" THEN
      <<Unscored((gen.canvas_width - width) \div 2, gen.canvas_height - height - margin,
                 "strategic-headline-bottom")>>
    ELSE IF element_type = "subheading" THEN
      [i \in 1 .. Len(SUBHEADING_PCTS) |->
         Unscored((gen.canvas_width - width) \div 2,
                  (gen.canvas_height * SUBHEADING_PCTS[i]) \div 100,
                  "strategic-subheading")]
    ELSE IF element_type = "badge" THEN
      Strategic(<< <<margin, gen.canvas_height - height - margin, "bottom-left">>,
                   <<gen.canvas_width - width - margin,
                     gen.canvas_height - height - margin, "bottom-right">>,
                   <<margin, margin, "top-left">>,
                   <<gen.canvas_width - width - margin, margin, "top-right">> >>,
                "strategic-badge-")
    ELSE IF element_type = "logo" THEN
      <<Unscored(gen.canvas_width - width - margin, gen.canvas_height - height - margin,
                 "strategic-logo")>>
    ELSE <<>>

generate_type_specific(gen, width, height, element_type) ==
    IF gen.grid.all_elements # <<>> /\ gen.scorer.subject_bounds # None
    THEN TypeSpecificWithin(gen.scorer.subject_bounds[1], width, height, element_type,
                            Px(TYPE_MARGIN))
    ELSE TypeSpecificOnCanvas(gen, width, height, element_type, Px(TYPE_MARGIN))

\* distance < tolerance, squared
IsNear(a, b, tolerance) ==
    (a.x - b.x) * (a.x - b.x) + (a.y - b.y) * (a.y - b.y) < tolerance * tolerance

\* a deduplication that compares a candidate with the last kept one only
DedupAgainstLast(unique, candidate, tolerance) ==
    IF unique # <<>> /\ IsNear(candidate, unique[Len(unique)], tolerance)
    THEN unique
    ELSE Append(unique, candidate)

\* lines 376-385, one iteration: the candidate is kept unless a kept one is near
Dedup(unique, candidate, tolerance) ==
    IF \E i \in 1 .. Len(unique) : IsNear(candidate, unique[i], tolerance)
    THEN unique
    ELSE Append(unique, candidate)

RECURSIVE DedupRange(_, _, _, _, _)
\* the loop of lines 376-385 over candidates[lo .. hi], in their order (the
\* range is halved, and unique is evaluated on entry, to keep the evaluation
\* shallow)
DedupRange(unique, candidates, lo, hi, tolerance) ==
    IF lo > hi \/ Len(unique) < 0 THEN unique
    ELSE IF lo = hi THEN Dedup(unique, candidates[lo], tolerance)
    ELSE DedupRange(DedupRange(unique, candidates, lo, (lo + hi) \div 2, tolerance),
                    candidates, (lo + hi) \div 2 + 1, hi, tolerance)

deduplicate_candidates(candidates, tolerance) ==
    DedupRange(<<>>, candidates, 1, Len(candidates), tolerance)

\* lines 79-86
SpaceCandidates(smart_positions) ==
    [i \in 1 .. Len(smart_positions) |->
       PlacementCandidate(smart_positions[i][1], smart_positions[i][2], 0,
                          <<smart_positions[i][3]>>, "space-analysis")]

\* a generator that runs the type-specific strategy as one more source
ProposedWithTypeSpecific(gen, width, height, element_type) ==
    SpaceCandidates(
        get_best_position_for_element(
            SpaceAnalyzer(gen.canvas_width, gen.canvas_height, gen.grid,
                          gen.scorer.subject_bounds),
            width, height, element_type))
    \o generate_grid_based(gen, width, height, element_type)
    \o generate_anchor_based(gen, width, height, element_type)
    \o generate_type_specific(gen, width, height, element_type)

\* lines 63-94: the candidates of the three strategies, in generation order
ProposedCandidates(gen, width, height, element_type) ==
    SpaceCandidates(
        get_best_position_for_element(
            SpaceAnalyzer(gen.canvas_width, gen.canvas_height, gen.grid,
                          gen.scorer.subject_bounds),
            width, height, element_type))
    \o generate_grid_based(gen, width, height, element_type)
    \o generate_anchor_based(gen, width, height, element_type)

\* lines 99-106: score a candidate, keeping its generation method
ScoreCandidate(gen, candidate, width, height, element_type) ==
    [score_placement(gen.scorer, candidate.x, candidate.y, width, height, element_type)
       EXCEPT !.method = candidate.method]

ScoreAll(gen, cands, width, height, element_type) ==
    [i \in 1 .. Len(cands) |-> ScoreCandidate(gen, cands[i], width, height, element_type)]

\* lines 109-110: sort by score, highest first, and limit
Ranked(scored_candidates, max_candidates) ==
    Take(StableSortDesc([i \in 1 .. Len(scored_candidates) |->
                           <<scored_candidates[i].score, scored_candidates[i]>>]),
         max_candidates)

generate_candidates(gen, width, height, element_type, max_candidates) ==
    Ranked(ScoreAll(gen,
                    deduplicate_candidates(
                        ProposedCandidates(gen, width, height, element_type),
                        Px(DEDUP_TOLERANCE)),
                    width, height, element_type),
           max_candidates)

(***************************************************************************)
(* routers/placement.py: the request and response models, smart_placement  *)
(***************************************************************************)
CanvasSize(w, h) == [w |-> w, h |-> h]
CanvasElement(id, type, x, y, width, height) ==
    [id |-> id, type |-> type, x |-> x, y |-> y, width |-> width, height |-> height]
SubjectBounds(x, y, width, height) == Rectangle(x, y, width, height)
ElementToPlace(type, width, height) == [type |-> type, width |-> width, height |-> height]
PlacementRequest(canvas_size, elements, element_to_place, subject_bounds) ==
    [canvas_size |-> canvas_size, elements |-> elements,
     element_to_place |-> element_to_place, subject_bounds |-> subject_bounds]

\* x and y are whole pixels; confidence is carried in score units, that is
\* as confidence * 100 * ScoreUnit of the element to place
PlacementResponse(x, y, confidence, reasoning) ==
    [x |-> x, y |-> y, confidence |-> confidence, reasoning |-> reasoning]

FALLBACK_X == 40
FALLBACK_Y == 40
FALLBACK_CONFIDENCE_PCT == 30
REASONS_KEPT == 3

NoPlacementText == "No valid placements found - using safe default"
ErrorText == "Error in placement system"

UnitOf(request) ==
    ScoreUnit(request.element_to_place.width, request.element_to_place.height)

\* lines 200-205
FallbackResponse(request) ==
    PlacementResponse(FALLBACK_X, FALLBACK_Y, FALLBACK_CONFIDENCE_PCT * UnitOf(request),
                      <<NoPlacementText>>)

\* lines 234-239
ErrorResponse(request) ==
    PlacementResponse(FALLBACK_X, FALLBACK_Y, FALLBACK_CONFIDENCE_PCT * UnitOf(request),
                      <<ErrorText>>)

\* lines 135-136: max(0, min(v, canvas_dim - dim))
ClampCoord(v, dim, canvas_dim) == Max(0, Min(v, canvas_dim - dim))

\* line 138: the condition of the clamping log line
LogsClamp(r) == r.x < 0 \/ r.y < 0

\* lines 135-149: the grid with one more request element
AddRequestElement(g, request, elem) ==
    add_element(g,
                ClampCoord(elem.x, elem.width, request.canvas_size.w),
                ClampCoord(elem.y, elem.height, request.canvas_size.h),
                elem.width, elem.height, elem.type, elem.id)

\* lines 155-171
SubjectRect(request) ==
    IF request.subject_bounds = None THEN None
    ELSE LET b == request.subject_bounds[1]
             sb_x == Max(0, b.x)
             sb_y == Max(0, b.y)
         IN Some(Rectangle(sb_x, sb_y,
                           Min(b.width, request.canvas_size.w - sb_x),
                           Min(b.height, request.canvas_size.h - sb_y)))

\* lines 173-193
CandidatesOf(request, g, subject_rect) ==
    generate_candidates(
        CandidateGenerator(
            request.canvas_size.w, request.canvas_size.h, g,
            ConstraintScorer(request.canvas_size.w, request.canvas_size.h, g,
                             subject_rect)),
        request.element_to_place.width, request.element_to_place.height,
        request.element_to_place.type, MAX_CANDIDATES)

\* a façade that answers with the fallback unless the best candidate is valid
ResponseOfValidOnly(request, cands) ==
    IF cands = <<>> \/ cands[1].score < 0 THEN FallbackResponse(request)
    ELSE PlacementResponse(Trunc(cands[1].x, Scale), Trunc(cands[1].y, Scale),
                           cands[1].score,
                           <<cands[1].method>> \o Take(cands[1].reasoning, REASONS_KEPT))

\* lines 197-226
ResponseOf(request, cands) ==
    IF cands = <<>> THEN FallbackResponse(request)
    ELSE LET best == cands[1]
         IN PlacementResponse(Trunc(best.x, Scale), Trunc(best.y, Scale), best.score,
                              <<best.method>> \o Take(best.reasoning, REASONS_KEPT))

(***************************************************************************)
(* routers/placement.py: RateLimiter, the module-level rate_limiter        *)
(***************************************************************************)
MIN_INTERVAL == 2

\* RateLimiter.check at time now: <<returned value, last_request_time after>>
check(last_request_time, now) ==
    IF now - last_request_time < MIN_INTERVAL THEN <<FALSE, last_request_time>>
    ELSE <<TRUE, now>>

(***************************************************************************)
(* The inputs                                                              *)
(***************************************************************************)
MaxElements == 2
MaxTime == 2

Canvases == { CanvasSize(Px(300), Px(300)) }

\* existing elements: inside the canvas, at negative coordinates, past the
\* far edge, and larger than the canvas
ElementPool ==
    << CanvasElement("img", "image", Px(100), Px(90), Px(100), Px(120)),
       CanvasElement("head", "headline", Px(-40), Px(20), Px(200), Px(60)),
       CanvasElement("far", "image", Px(250), Px(260), Px(90), Px(90)),
       CanvasElement("badge", "badge", Px(0), Px(-10), Px(60), Px(60)),
       CanvasElement("wall", "text", Px(0), Px(0), Px(320), Px(300)) >>

RECURSIVE SubSeqs(_, _)
\* the subsequences of pool of at most n entries
SubSeqs(pool, n) ==
    IF pool = <<>> \/ n = 0 THEN { <<>> }
    ELSE SubSeqs(Tail(pool), n)
         \cup { <<Head(pool)>> \o t : t \in SubSeqs(Tail(pool), n - 1) }

ElementLists == SubSeqs(ElementPool, MaxElements)

ElementTypes == {"headline", "subheading", "badge", "logo"}

\* sizes: small, wider than the canvas, too large for the 50px margins
Sizes == { <<Px(100), Px(60)>>, <<Px(320), Px(60)>>, <<Px(220), Px(220)>> }

ElementsToPlace == { ElementToPlace(t, wh[1], wh[2]) : t \in ElementTypes, wh \in Sizes }

SubjectBoundsChoices ==
    { None,
      Some(SubjectBounds(Px(0), Px(0), Px(300), Px(300))),
      Some(SubjectBounds(Px(-20), Px(40), Px(200), Px(240))),
      Some(SubjectBounds(Px(150), Px(100), Px(350), Px(450))) }

Requests ==
    { PlacementRequest(c, els, etp, sb) :
        c \in Canvases, els \in ElementLists, etp \in ElementsToPlace,
        sb \in SubjectBoundsChoices }

\* inputs of the scorer: elements a and b fill the same share of the centre
\* cell at different places, c and d share one id
ScorePool ==
    << CanvasElement("a", "image", Px(110), Px(110), Px(60), Px(60)),
       CanvasElement("b", "image", Px(130), Px(120), Px(60), Px(60)),
       CanvasElement("c", "text", Px(20), Px(220), Px(50), Px(50)),
       CanvasElement("c", "badge", Px(230), Px(10), Px(40), Px(40)) >>

ScoreSizes == { <<Px(60), Px(60)>>, <<Px(100), Px(60)>> }

ScoreRequests ==
    { PlacementRequest(c, els, ElementToPlace(t, wh[1], wh[2]), sb) :
        c \in Canvases, els \in SubSeqs(ScorePool, MaxElements),
        t \in ElementTypes, wh \in ScoreSizes, sb \in SubjectBoundsChoices }

\* positions handed to score_placement: off the canvas on either side, on
\* and off the 40px alignment grid, in and out of the 30px margins
ProbeXs == { Px(-10), Px(0), Px(40), Px(118), Px(140), Px(200), Px(245) }
ProbeYs == { Px(-10), Px(0), Px(40), Px(118), Px(200), Px(245) }

\* requests of concurrent calls
ConcRequests ==
    { PlacementRequest(c, els, ElementToPlace("badge", Px(100), Px(60)), sb) :
        c \in Canvases, els \in SubSeqs(SubSeq(ElementPool, 1, 2), MaxElements),
        sb \in {None, Some(SubjectBounds(Px(150), Px(100), Px(350), Px(450)))} }

ConcFaults == {"none", "generate"}

\* the generator on its own: a 60x60 element, whose simple grid is
\* (50,50), (50,130), (130,50), (130,130), next to elements whose left anchors
\* are (56,50), (62,54) and (60,50)
GenPool ==
    << CanvasElement("e1", "image", Px(136), Px(50), Px(100), Px(100)),
       CanvasElement("e2", "image", Px(142), Px(54), Px(100), Px(100)),
       CanvasElement("e3", "text", Px(140), Px(50), Px(100), Px(100)) >>

GenTypes == {"badge", "logo", "headline"}

\* no bounds; the canvas; bounds that start past the right edge
GenBounds ==
    { None,
      Some(SubjectBounds(Px(0), Px(0), Px(300), Px(300))),
      Some(SubjectBounds(Px(400), Px(100), Px(80), Px(80))) }

GenRequests ==
    { PlacementRequest(c, els, ElementToPlace(t, Px(60), Px(60)), sb) :
        c \in Canvases, els \in SubSeqs(GenPool, MaxElements), t \in GenTypes,
        sb \in GenBounds }

\* an element that just fits the canvas with 50px margins on every side
FitRequests ==
    { PlacementRequest(c, els, ElementToPlace(t, c.w - 2 * Px(GRID_MARGIN),
                                              c.h - 2 * Px(GRID_MARGIN)), None) :
        c \in Canvases, els \in SubSeqs(GenPool, MaxElements), t \in GenTypes }

\* the scenarios of the specification: A, a headline on an empty 1080x1920
\* canvas; B, a badge on an 800x600 canvas whose image is the subject
ScenarioA ==
    PlacementRequest(CanvasSize(Px(1080), Px(1920)), <<>>,
                     ElementToPlace("headline", Px(600), Px(120)), None)

ScenarioB ==
    PlacementRequest(CanvasSize(Px(800), Px(600)),
                     <<CanvasElement("img", "image", Px(200), Px(150), Px(350), Px(450))>>,
                     ElementToPlace("badge", Px(100), Px(100)),
                     Some(SubjectBounds(Px(200), Px(150), Px(350), Px(450))))

\* C, an 800x600 canvas that two elements cover entirely, for the element of
\* scenario A or B, without bounds, with the bounds of B or with the canvas
\* as bounds
ScenarioC ==
    { PlacementRequest(CanvasSize(Px(800), Px(600)),
                       <<CanvasElement("a", "image", Px(0), Px(0), Px(400), Px(600)),
                         CanvasElement("b", "image", Px(400), Px(0), Px(400), Px(600))>>,
                       etp, sb) :
        etp \in {ElementToPlace("headline", Px(600), Px(120)),
                 ElementToPlace("badge", Px(100), Px(100))},
        sb \in {None, Some(SubjectBounds(Px(200), Px(150), Px(350), Px(450))),
                Some(SubjectBounds(Px(0), Px(0), Px(800), Px(600)))} }

\* a headline for bounds in which two texts overlap each other
OverlapRequest ==
    PlacementRequest(CanvasSize(Px(300), Px(300)),
                     <<CanvasElement("e0", "text", Px(110), Px(50), Px(100), Px(200)),
                       CanvasElement("e1", "text", Px(20), Px(120), Px(200), Px(60))>>,
                     ElementToPlace("headline", Px(60), Px(60)),
                     Some(SubjectBounds(Px(100), Px(50), Px(200), Px(150))))

ScenarioRequests == {ScenarioA, ScenarioB, OverlapRequest} \cup ScenarioC

\* the max_candidates generate_candidates is called with
MaxCandidatesChoices == {2, MAX_CANDIDATES}

\* the grid on its own: elements that start at negative coordinates, reach
\* past the canvas, span several cells, lie in one cell and end on a cell
\* border; two of them have the same id
GridPool ==
    << CanvasElement("neg", "text", Px(-40), Px(20), Px(200), Px(60)),
       CanvasElement("past", "image", Px(250), Px(260), Px(90), Px(90)),
       CanvasElement("mid", "image", Px(80), Px(80), Px(140), Px(140)),
       CanvasElement("in", "badge", Px(110), Px(110), Px(60), Px(60)),
       CanvasElement("in", "text", Px(40), Px(0), Px(60), Px(60)) >>

GridRequests ==
    { PlacementRequest(c, els, ElementToPlace("badge", Px(60), Px(60)), None) :
        c \in Canvases, els \in SubSeqs(GridPool, MaxElements) }

\* the canvas, its centre cell, a region left of the canvas, a region past
\* its bottom right corner, a region that touches a corner of "in", a region
\* across the bottom right corner
QueryRegions ==
    { Rectangle(Px(0), Px(0), Px(300), Px(300)),
      Rectangle(Px(100), Px(100), Px(100), Px(100)),
      Rectangle(Px(-30), Px(30), Px(20), Px(20)),
      Rectangle(Px(310), Px(300), Px(20), Px(20)),
      Rectangle(Px(170), Px(170), Px(40), Px(40)),
      Rectangle(Px(290), Px(290), Px(20), Px(20)) }

\* the hierarchy check on its own: canvases of two heights, every element
\* type the check names and two it does not, top edges on and next to 15%,
\* 30%, 50% and 70% of either height
HierCanvases == { CanvasSize(Px(300), Px(300)), CanvasSize(Px(300), Px(600)) }

HierTypes == ElementTypes \cup {"image", "cta"}

HierRequests ==
    { PlacementRequest(c, els, ElementToPlace(t, Px(60), Px(60)), None) :
        c \in HierCanvases, els \in SubSeqs(ScorePool, 1), t \in HierTypes }

HierXs == { Px(40), Px(118) }
HierYs == { Px(0), Px(45), Px(50), Px(90), Px(100), Px(150), Px(160), Px(180),
            Px(190), Px(210), Px(220), Px(240), Px(300), Px(310), Px(420), Px(430) }

\* the space analyzer on its own. On the 300x300 canvas: a subject at the
\* right edge, two texts that cover the region left of it twice, a subject
\* at the bottom edge, a badge. On the 600x600 canvas: a subject in the
\* middle, a subject column right of the middle, a text on the upper half of
\* the region left of the column
SpacePool ==
    << CanvasElement("prod", "image", Px(200), Px(0), Px(100), Px(300)),
       CanvasElement("t1", "text", Px(0), Px(0), Px(190), Px(300)),
       CanvasElement("t2", "text", Px(0), Px(0), Px(180), Px(280)),
       CanvasElement("low", "image", Px(0), Px(200), Px(300), Px(100)),
       CanvasElement("tag", "badge", Px(20), Px(20), Px(60), Px(60)) >>

WidePool ==
    << CanvasElement("mid", "image", Px(250), Px(250), Px(100), Px(100)),
       CanvasElement("col", "image", Px(270), Px(0), Px(100), Px(600)),
       CanvasElement("cover", "text", Px(0), Px(0), Px(230), Px(300)) >>

SpaceElements ==
    { ElementToPlace(t, wh[1], wh[2]) :
        t \in {"headline", "badge", "image"},
        wh \in { <<Px(60), Px(60)>>, <<Px(100), Px(150)>>, <<Px(200), Px(100)>> } }

\* no bounds; bounds inside the canvas; bounds that end above and left of
\* the subjects; bounds that start past the right edge
SpaceBounds ==
    { None,
      Some(SubjectBounds(Px(20), Px(20), Px(260), Px(260))),
      Some(SubjectBounds(Px(0), Px(0), Px(190), Px(150))),
      Some(SubjectBounds(Px(400), Px(100), Px(80), Px(80))) }

WideBounds ==
    { None,
      Some(SubjectBounds(Px(50), Px(50), Px(500), Px(500))),
      Some(SubjectBounds(Px(50), Px(50), Px(500), Px(150))) }

SpaceRequests ==
    { PlacementRequest(CanvasSize(Px(300), Px(300)), els, etp, sb) :
        els \in SubSeqs(SpacePool, MaxElements) \cup { SubSeq(SpacePool, 1, 3) },
        etp \in SpaceElements, sb \in SpaceBounds }
    \cup
    { PlacementRequest(CanvasSize(Px(600), Px(600)), els, etp, sb) :
        els \in SubSeqs(WidePool, MaxElements), etp \in SpaceElements, sb \in WideBounds }

\* the steps of smart_placement inside its try block; a call's fault is the
\* step during which an exception is raised, or "none"
TrySteps == {"build", "elements", "generate", "respond"}
Faults == {"none"} \cup TrySteps

Calls == {1, 2}

(***************************************************************************)
(* The state                                                               *)
(***************************************************************************)
VARIABLES
    pc,            \* pc[p]: where call p of smart_placement is
    request,       \* request[p]: its PlacementRequest
    fault,         \* fault[p]: the step of call p that raises, or "none"
    grid,          \* grid[p]: the SpatialGrid object created by call p
    idx,           \* idx[p]: the next element of request.elements to add
    subject_rect,  \* subject_rect[p]: the clamped subject_bounds
    candidates,    \* candidates[p]: the list generate_candidates returned
    responses,     \* responses[p]: the responses call p has returned
    log,           \* log[p]: the ids (or "subject_bounds") of the clamping log lines
    rate_limiter,  \* the module-level RateLimiter: its last_request_time
    now,           \* time.time()
    scored,        \* scored[p]: what the scorer of call p returned last
    proposed,      \* proposed[p]: the candidates of generate_candidates before line 97
    unique,        \* unique[p]: what _deduplicate_candidates returned
    max_candidates, \* max_candidates[p]: the limit generate_candidates was called with
    found,         \* found[p]: the last get_elements_in_region query and its result
    density,       \* density[p]: what get_density_map returned last
    free_regions,  \* free_regions[p]: what analyze_free_space returned last
    positions      \* positions[p]: the last get_best_position_for_element call

vars == <<pc, request, fault, grid, idx, subject_rect, candidates, responses, log,
          rate_limiter, now, scored, proposed, unique, max_candidates, found, density,
                   free_regions, positions>>

NoRequest ==
    PlacementRequest(CanvasSize(0, 0), <<>>, ElementToPlace("", 0, 0), None)
\* no SpatialGrid object exists outside a call
NoGrid == None

Init ==
    /\ pc = [p \in Calls |-> "idle"]
    /\ request = [p \in Calls |-> NoRequest]
    /\ fault = [p \in Calls |-> "none"]
    /\ grid = [p \in Calls |-> NoGrid]
    /\ idx = [p \in Calls |-> 0]
    /\ subject_rect = [p \in Calls |-> None]
    /\ candidates = [p \in Calls |-> <<>>]
    /\ responses = [p \in Calls |-> <<>>]
    /\ log = [p \in Calls |-> <<>>]
    /\ rate_limiter = 0
    /\ now = 0
    /\ scored = [p \in Calls |-> None]
    /\ proposed = [p \in Calls |-> <<>>]
    /\ unique = [p \in Calls |-> <<>>]
    /\ max_candidates = [p \in Calls |-> MAX_CANDIDATES]
    /\ found = [p \in Calls |-> None]
    /\ density = [p \in Calls |-> None]
    /\ free_regions = [p \in Calls |-> None]
    /\ positions = [p \in Calls |-> None]

\* one grid object kept at module level and used by every call
ModuleLevelGrid(p) == 1

\* the grid object call p works on: the local variable grid of line 126
GridOf(p) == p

\* a try block that starts only after the grid is built
InTryAfterGrid(step) == step \in {"generate", "respond"}

\* whether an exception raised at this step is inside try ... except Exception
InTry(step) == step \in TrySteps

\* lines 108-124: the call is received and enters the try block
Receive(p, r, f) ==
    /\ pc[p] = "idle"
    /\ pc' = [pc EXCEPT ![p] = "build"]
    /\ request' = [request EXCEPT ![p] = r]
    /\ fault' = [fault EXCEPT ![p] = f]
    /\ responses' = [responses EXCEPT ![p] = <<>>]
    /\ log' = [log EXCEPT ![p] = <<>>]
    /\ UNCHANGED <<grid, idx, subject_rect, candidates, rate_limiter, now, scored, proposed, unique, max_candidates, found, density,
                   free_regions, positions>>

\* lines 126-130: grid = SpatialGrid(...)
BuildGrid(p) ==
    /\ pc[p] = "build"
    /\ fault[p] # "build"
    /\ grid' = [grid EXCEPT ![GridOf(p)] =
                  SpatialGrid(request[p].canvas_size.w, request[p].canvas_size.h,
                              GRID_SIZE)]
    /\ idx' = [idx EXCEPT ![p] = 1]
    /\ pc' = [pc EXCEPT ![p] = "elements"]
    /\ UNCHANGED <<request, fault, subject_rect, candidates, responses, log,
                   rate_limiter, now, scored, proposed, unique, max_candidates, found, density,
                   free_regions, positions>>

\* lines 133-149: one iteration of the loop over request.elements
AddElement(p) ==
    /\ pc[p] = "elements"
    /\ fault[p] # "elements"
    /\ idx[p] <= Len(request[p].elements)
    /\ LET elem == request[p].elements[idx[p]]
       IN /\ grid' = [grid EXCEPT ![GridOf(p)] = AddRequestElement(@, request[p], elem)]
          /\ log' = [log EXCEPT ![p] = IF LogsClamp(elem) THEN Append(@, elem.id) ELSE @]
    /\ idx' = [idx EXCEPT ![p] = @ + 1]
    /\ UNCHANGED <<pc, request, fault, subject_rect, candidates, responses,
                   rate_limiter, now, scored, proposed, unique, max_candidates, found, density,
                   free_regions, positions>>

\* a scorer kept at module level: building it replaces the containment
\* bounds every call scores against
BuildModuleScorer(p) ==
    /\ pc[p] = "elements"
    /\ fault[p] # "elements"
    /\ idx[p] > Len(request[p].elements)
    /\ subject_rect' = [q \in Calls |-> SubjectRect(request[p])]
    /\ log' = [log EXCEPT ![p] =
                 IF request[p].subject_bounds # None
                    /\ LogsClamp(request[p].subject_bounds[1])
                 THEN Append(@, "subject_bounds") ELSE @]
    /\ pc' = [pc EXCEPT ![p] = "generate"]
    /\ UNCHANGED <<request, fault, grid, idx, candidates, responses, rate_limiter, now,
                   scored, proposed, unique, max_candidates, found, density,
                   free_regions, positions>>

\* lines 151-186: subject_bounds is clamped, the scorer and generator are built
BuildScorer(p) ==
    /\ pc[p] = "elements"
    /\ fault[p] # "elements"
    /\ idx[p] > Len(request[p].elements)
    /\ subject_rect' = [subject_rect EXCEPT ![p] = SubjectRect(request[p])]
    /\ log' = [log EXCEPT ![p] =
                 IF request[p].subject_bounds # None
                    /\ LogsClamp(request[p].subject_bounds[1])
                 THEN Append(@, "subject_bounds") ELSE @]
    /\ pc' = [pc EXCEPT ![p] = "generate"]
    /\ UNCHANGED <<request, fault, grid, idx, candidates, responses, rate_limiter, now,
                   scored, proposed, unique, max_candidates, found, density,
                   free_regions, positions>>

\* lines 188-195: candidates = generator.generate_candidates(...)
Generate(p) ==
    /\ pc[p] = "generate"
    /\ fault[p] # "generate"
    /\ candidates' = [candidates EXCEPT ![p] =
                        CandidatesOf(request[p], grid[GridOf(p)], subject_rect[p])]
    /\ pc' = [pc EXCEPT ![p] = "respond"]
    /\ UNCHANGED <<request, fault, grid, idx, subject_rect, responses, log,
                   rate_limiter, now, scored, proposed, unique, max_candidates, found, density,
                   free_regions, positions>>

\* lines 197-226: the fallback or the best candidate is returned
Respond(p) ==
    /\ pc[p] = "respond"
    /\ fault[p] # "respond"
    /\ responses' = [responses EXCEPT ![p] = Append(@, ResponseOf(request[p], candidates[p]))]
    /\ pc' = [pc EXCEPT ![p] = "done"]
    /\ UNCHANGED <<request, fault, grid, idx, subject_rect, candidates, log,
                   rate_limiter, now, scored, proposed, unique, max_candidates, found, density,
                   free_regions, positions>>

\* lines 228-239: an exception is raised during the current step; inside the
\* try block it is caught and answered, anywhere else it leaves the call
Raise(p) ==
    /\ pc[p] = fault[p]
    /\ IF InTry(pc[p])
       THEN /\ responses' = [responses EXCEPT ![p] = Append(@, ErrorResponse(request[p]))]
            /\ pc' = [pc EXCEPT ![p] = "done"]
       ELSE /\ pc' = [pc EXCEPT ![p] = "escaped"]
            /\ UNCHANGED responses
    /\ UNCHANGED <<request, fault, grid, idx, subject_rect, candidates, log,
                   rate_limiter, now, scored, proposed, unique, max_candidates, found, density,
                   free_regions, positions>>

\* the call has returned: its locals are gone
Return(p) ==
    /\ pc[p] = "done"
    /\ pc' = [pc EXCEPT ![p] = "idle"]
    /\ request' = [request EXCEPT ![p] = NoRequest]
    /\ fault' = [fault EXCEPT ![p] = "none"]
    /\ grid' = [grid EXCEPT ![GridOf(p)] = NoGrid]
    /\ idx' = [idx EXCEPT ![p] = 0]
    /\ subject_rect' = [subject_rect EXCEPT ![p] = None]
    /\ candidates' = [candidates EXCEPT ![p] = <<>>]
    /\ responses' = [responses EXCEPT ![p] = <<>>]
    /\ log' = [log EXCEPT ![p] = <<>>]
    /\ scored' = [scored EXCEPT ![p] = None]
    /\ proposed' = [proposed EXCEPT ![p] = <<>>]
    /\ unique' = [unique EXCEPT ![p] = <<>>]
    /\ max_candidates' = [max_candidates EXCEPT ![p] = MAX_CANDIDATES]
    /\ found' = [found EXCEPT ![p] = None]
    /\ density' = [density EXCEPT ![p] = None]
    /\ free_regions' = [free_regions EXCEPT ![p] = None]
    /\ positions' = [positions EXCEPT ![p] = None]
    /\ UNCHANGED <<rate_limiter, now>>

\* one call at a time, any request, any fault
Next ==
    \/ \E r \in Requests, f \in Faults : Receive(1, r, f)
    \/ BuildGrid(1)
    \/ AddElement(1)
    \/ BuildScorer(1)
    \/ Generate(1)
    \/ Respond(1)
    \/ Raise(1)
    \/ Return(1)

Spec == Init /\ [][Next]_vars

\* the steps of call p between its reception and its return
CallStep(p) ==
    BuildGrid(p) \/ AddElement(p) \/ BuildScorer(p) \/ Generate(p) \/ Respond(p) \/ Raise(p)

\* smart_placement has no await (lines 107-239): once received, a call runs
\* on, so its position (pc, idx) does not stay where it is while the call is
\* inside the function; the steps of Next that move it are those of CallStep
Positions == TrySteps \cup {"done", "escaped"}

Progress(p) ==
    /\ pc[p] \in TrySteps
    /\ \E s \in Positions, i \in 0..(MaxElements + 1) :
          /\ pc' = [pc EXCEPT ![p] = s]
          /\ idx' = [idx EXCEPT ![p] = i]

FairSpec == Spec /\ WF_<<pc, idx>>(Progress(1))

(***************************************************************************)
(* The scorer on its own: a call builds its grid and scorer, then          *)
(* score_placement is applied to any position                              *)
(***************************************************************************)
\* the ConstraintScorer call p built at lines 174-179
ScorerOf(p) ==
    ConstraintScorer(request[p].canvas_size.w, request[p].canvas_size.h,
                     grid[GridOf(p)], subject_rect[p])

\* self.scorer.score_placement(x, y, width, height, element_type)
ScorePlacement(p, x, y) ==
    /\ pc[p] = "generate"
    /\ scored' = [scored EXCEPT ![p] =
                    Some(score_placement(ScorerOf(p), x, y,
                                         request[p].element_to_place.width,
                                         request[p].element_to_place.height,
                                         request[p].element_to_place.type))]
    /\ UNCHANGED <<pc, request, fault, grid, idx, subject_rect, candidates, responses,
                   log, rate_limiter, now, proposed, unique, max_candidates, found, density,
                   free_regions, positions>>

NextScore ==
    \/ \E r \in ScoreRequests : Receive(1, r, "none")
    \/ BuildGrid(1)
    \/ AddElement(1)
    \/ BuildScorer(1)
    \/ \E x \in ProbeXs, y \in ProbeYs : ScorePlacement(1, x, y)

SpecScore == Init /\ [][NextScore]_vars

(***************************************************************************)
(* Concurrent calls, and the module-level rate limiter                     *)
(***************************************************************************)
\* time.time() advances
Tick ==
    /\ now < MaxTime
    /\ now' = now + 1
    /\ UNCHANGED <<pc, request, fault, grid, idx, subject_rect, candidates, responses,
                   log, rate_limiter, scored, proposed, unique, max_candidates, found, density,
                   free_regions, positions>>

\* rate_limiter.check(), lines 50-55; smart_placement does not call it
Check ==
    /\ rate_limiter' = check(rate_limiter, now)[2]
    /\ UNCHANGED <<pc, request, fault, grid, idx, subject_rect, candidates, responses,
                   log, now, scored, proposed, unique, max_candidates, found, density,
                   free_regions, positions>>

NextConc ==
    \/ \E p \in Calls :
          \/ \E r \in ConcRequests, f \in ConcFaults : Receive(p, r, f)
          \/ BuildGrid(p)
          \/ AddElement(p)
          \/ BuildScorer(p)
          \/ Generate(p)
          \/ Respond(p)
          \/ Raise(p)
          \/ Return(p)
    \/ Tick
    \/ Check

SpecConc == Init /\ [][NextConc]_vars

(***************************************************************************)
(* The generator on its own: generate_candidates step by step, with any    *)
(* max_candidates; proposed and unique are kept until the call returns     *)
(***************************************************************************)
\* the CandidateGenerator call p built at lines 181-186
GeneratorOf(p) ==
    CandidateGenerator(request[p].canvas_size.w, request[p].canvas_size.h,
                       grid[GridOf(p)], ScorerOf(p))

\* lines 63-94: the three strategies append their candidates
Propose(p) ==
    /\ pc[p] = "generate"
    /\ proposed' = [proposed EXCEPT ![p] =
                      ProposedCandidates(GeneratorOf(p),
                                         request[p].element_to_place.width,
                                         request[p].element_to_place.height,
                                         request[p].element_to_place.type)]
    /\ pc' = [pc EXCEPT ![p] = "dedup"]
    /\ UNCHANGED <<request, fault, grid, idx, subject_rect, candidates, responses, log,
                   rate_limiter, now, scored, unique, max_candidates, found, density,
                   free_regions, positions>>

\* lines 96-97: candidates = self._deduplicate_candidates(candidates)
Deduplicate(p) ==
    /\ pc[p] = "dedup"
    /\ unique' = [unique EXCEPT ![p] =
                    deduplicate_candidates(proposed[p], Px(DEDUP_TOLERANCE))]
    /\ pc' = [pc EXCEPT ![p] = "score"]
    /\ UNCHANGED <<request, fault, grid, idx, subject_rect, candidates, responses, log,
                   rate_limiter, now, scored, proposed, max_candidates, found, density,
                   free_regions, positions>>

\* lines 99-110: the kept candidates are scored, sorted and cut
Rank(p, limit) ==
    /\ pc[p] = "score"
    /\ max_candidates' = [max_candidates EXCEPT ![p] = limit]
    /\ candidates' = [candidates EXCEPT ![p] =
                        Ranked(ScoreAll(GeneratorOf(p), unique[p],
                                        request[p].element_to_place.width,
                                        request[p].element_to_place.height,
                                        request[p].element_to_place.type),
                               limit)]
    /\ pc' = [pc EXCEPT ![p] = "respond"]
    /\ UNCHANGED <<request, fault, grid, idx, subject_rect, responses, log,
                   rate_limiter, now, scored, proposed, unique, found, density,
                   free_regions, positions>>

NextGen ==
    \/ \E r \in GenRequests \cup FitRequests \cup ScenarioRequests : Receive(1, r, "none")
    \/ BuildGrid(1)
    \/ AddElement(1)
    \/ BuildScorer(1)
    \/ Propose(1)
    \/ Deduplicate(1)
    \/ \E m \in MaxCandidatesChoices : Rank(1, m)
    \/ Respond(1)
    \/ Return(1)

SpecGen == Init /\ [][NextGen]_vars

(***************************************************************************)
(* The grid on its own: add_element is called with the elements of the     *)
(* request as they are, and the grid is queried at any time; found and     *)
(* density are of the grid as it is, an add_element call clears them       *)
(***************************************************************************)
\* grid.add_element(x, y, width, height, element_type, element_id)
AddDirect(p) ==
    /\ pc[p] = "elements"
    /\ idx[p] <= Len(request[p].elements)
    /\ LET elem == request[p].elements[idx[p]]
       IN grid' = [grid EXCEPT ![GridOf(p)] =
                     add_element(@, elem.x, elem.y, elem.width, elem.height,
                                 elem.type, elem.id)]
    /\ idx' = [idx EXCEPT ![p] = @ + 1]
    /\ found' = [found EXCEPT ![p] = None]
    /\ density' = [density EXCEPT ![p] = None]
    /\ UNCHANGED <<pc, request, fault, subject_rect, candidates, responses, log,
                   rate_limiter, now, scored, proposed, unique, max_candidates,
                   free_regions, positions>>

\* grid.get_elements_in_region(x, y, width, height)
Query(p, region) ==
    /\ pc[p] = "elements"
    /\ found' = [found EXCEPT ![p] =
                   Some([region |-> region,
                         elements |-> get_elements_in_region(
                                          grid[GridOf(p)], region.x, region.y,
                                          region.width, region.height)])]
    /\ UNCHANGED <<pc, request, fault, grid, idx, subject_rect, candidates, responses,
                   log, rate_limiter, now, scored, proposed, unique, max_candidates,
                   density, free_regions, positions>>

\* grid.get_density_map()
DensityMap(p) ==
    /\ pc[p] = "elements"
    /\ density' = [density EXCEPT ![p] = Some(get_density_map(grid[GridOf(p)]))]
    /\ UNCHANGED <<pc, request, fault, grid, idx, subject_rect, candidates, responses,
                   log, rate_limiter, now, scored, proposed, unique, max_candidates,
                   found, free_regions, positions>>

NextGrid ==
    \/ \E r \in GridRequests : Receive(1, r, "none")
    \/ BuildGrid(1)
    \/ AddDirect(1)
    \/ \E region \in QueryRegions : Query(1, region)
    \/ DensityMap(1)

SpecGrid == Init /\ [][NextGrid]_vars

(***************************************************************************)
(* The space analyzer on its own: once the scorer is built, the free space *)
(* is analyzed and the best positions are asked for, as generate_candidates*)
(* does at lines 66-77                                                     *)
(***************************************************************************)
\* the SpaceAnalyzer generate_candidates builds at lines 66-71
AnalyzerOf(p) ==
    SpaceAnalyzer(request[p].canvas_size.w, request[p].canvas_size.h,
                  grid[GridOf(p)], subject_rect[p])

\* space_analyzer.analyze_free_space(), as get_space_summary calls it
Analyze(p) ==
    /\ pc[p] = "generate"
    /\ free_regions' = [free_regions EXCEPT ![p] = Some(analyze_free_space(AnalyzerOf(p)))]
    /\ UNCHANGED <<pc, request, fault, grid, idx, subject_rect, candidates, responses,
                   log, rate_limiter, now, scored, proposed, unique, max_candidates,
                   found, density, positions>>

\* the locals of get_best_position_for_element when it returns: free_regions,
\* viable_regions (empty at the early return of line 170) and positions
BestPositionLocals(free, canvas, width, height, element_type) ==
    [free_regions |-> free,
     viable_regions |->
        IF ExplicitFailure(free, width, height, element_type) THEN <<>>
        ELSE ViableRegions(free, width, height, element_type),
     positions |-> BestPositions(free, canvas, width, height, element_type)]

\* space_analyzer.get_best_position_for_element(width, height, element_type)
BestPosition(p) ==
    /\ pc[p] = "generate"
    /\ positions' = [positions EXCEPT ![p] =
                       Some(BestPositionLocals(analyze_free_space(AnalyzerOf(p)),
                                               CanvasBounds(AnalyzerOf(p)),
                                               request[p].element_to_place.width,
                                               request[p].element_to_place.height,
                                               request[p].element_to_place.type))]
    /\ UNCHANGED <<pc, request, fault, grid, idx, subject_rect, candidates, responses,
                   log, rate_limiter, now, scored, proposed, unique, max_candidates,
                   found, density, free_regions>>

NextSpace ==
    \/ \E r \in SpaceRequests : Receive(1, r, "none")
    \/ BuildGrid(1)
    \/ AddElement(1)
    \/ BuildScorer(1)
    \/ Analyze(1)
    \/ BestPosition(1)

SpecSpace == Init /\ [][NextSpace]_vars

(***************************************************************************)
(* The hierarchy check on its own: score_placement is applied to top edges *)
(* on either side of its thresholds, on canvases of two heights            *)
(***************************************************************************)
NextHier ==
    \/ \E r \in HierRequests : Receive(1, r, "none")
    \/ BuildGrid(1)
    \/ AddElement(1)
    \/ BuildScorer(1)
    \/ \E x \in HierXs, y \in HierYs : ScorePlacement(1, x, y)

SpecHier == Init /\ [][NextHier]_vars

(***************************************************************************)
(* Properties of smart_placement                                           *)
(***************************************************************************)
Running(p) == pc[p] \in TrySteps
Returned(p) == pc[p] = "done"
Answer(p) == responses[p][1]
Answered(p) == Returned(p) /\ fault[p] = "none"

\* confidence = 0.3, for a confidence carried as confidence * 100 * unit
IsThreeTenths(confidence, unit) == 10 * confidence = 3 * 100 * unit

\* C1: every call of smart_placement ends with exactly one PlacementResponse
\* and no exception leaves it: a call that has been received reaches its
\* return, it never returns twice, and when a step of the try block raises,
\* the one response is the fallback x=40, y=40, confidence=0.3 with the error
\* reasoning.
C1_AlwaysResponds ==
    /\ [](\A p \in Calls :
            /\ pc[p] # "escaped"
            /\ Len(responses[p]) <= 1
            /\ Returned(p) => Len(responses[p]) = 1
            /\ Returned(p) /\ fault[p] # "none" =>
                 /\ Answer(p).x = FALLBACK_X /\ Answer(p).y = FALLBACK_Y
                 /\ IsThreeTenths(Answer(p).confidence, UnitOf(request[p]))
                 /\ Answer(p).reasoning = <<ErrorText>>)
    /\ (Running(1) ~> Returned(1))

C1_Witness ==
    /\ Returned(1)
    /\ fault[1] = "generate"
    /\ responses[1] = <<ErrorResponse(request[1])>>

InCanvas(x, y, width, height, canvas_size) ==
    /\ 0 <= x
    /\ 0 <= y
    /\ x + width <= canvas_size.w
    /\ y + height <= canvas_size.h

\* C2: a response taken from the candidate list places the element of the
\* requested size inside the canvas.
C2_ResponseInCanvas ==
    \A p \in Calls :
        Answered(p) /\ candidates[p] # <<>> =>
            InCanvas(Px(Answer(p).x), Px(Answer(p).y),
                     request[p].element_to_place.width,
                     request[p].element_to_place.height, request[p].canvas_size)

\* C3: the confidence of every response lies in [0, 1] (here: between 0 and
\* 100 score points).
C3_ConfidenceInRange ==
    \A p \in Calls :
        Returned(p) =>
            /\ 0 <= Answer(p).confidence
            /\ Answer(p).confidence <= MAX_SCORE * UnitOf(request[p])

\* C4: when element_to_place.width exceeds the canvas width, the candidate
\* list is empty and the response is the fallback (40, 40, 0.3).
C4_TooWideFallsBack ==
    \A p \in Calls :
        Answered(p) /\ request[p].element_to_place.width > request[p].canvas_size.w =>
            /\ candidates[p] = <<>>
            /\ Answer(p) = FallbackResponse(request[p])

\* C5: with an empty candidate list the response is exactly x=40, y=40,
\* confidence=0.3 with the no-valid-placement reasoning; with a non-empty
\* list it is the first entry (truncated position, score/100, method and
\* first reasons), which is never the fallback response.
C5_FallbackIffEmpty ==
    \A p \in Calls :
        Answered(p) =>
            IF candidates[p] = <<>>
            THEN /\ Answer(p).x = FALLBACK_X /\ Answer(p).y = FALLBACK_Y
                 /\ IsThreeTenths(Answer(p).confidence, UnitOf(request[p]))
                 /\ Answer(p).reasoning = <<NoPlacementText>>
            ELSE /\ Answer(p).x = Trunc(candidates[p][1].x, Scale)
                 /\ Answer(p).y = Trunc(candidates[p][1].y, Scale)
                 /\ Answer(p).confidence = candidates[p][1].score
                 /\ Head(Answer(p).reasoning) = candidates[p][1].method
                 /\ Answer(p) # FallbackResponse(request[p])

\* an empty list answered by the fallback
C5_Witness ==
    /\ Answered(1)
    /\ candidates[1] = <<>>
    /\ request[1].elements # <<>>
    /\ Answer(1) = FallbackResponse(request[1])

(***************************************************************************)
(* Properties of score_placement                                           *)
(***************************************************************************)
HasScored(p) == scored[p] # None
Scored(p) == scored[p][1]
PlacedRect(p) ==
    Rectangle(Scored(p).x, Scored(p).y, request[p].element_to_place.width,
              request[p].element_to_place.height)
ScoredInCanvas(p) ==
    InCanvas(Scored(p).x, Scored(p).y, request[p].element_to_place.width,
             request[p].element_to_place.height, request[p].canvas_size)
Sentinel(p) == INVALID_SCORE * UnitOf(request[p])

\* at most 10% of the candidate lies inside the containment bounds
AtMostTenthInside(p) ==
    /\ subject_rect[p] # None
    /\ 10 * InsideArea(PlacedRect(p), subject_rect[p][1]) <= area(PlacedRect(p))

\* C6: a candidate that is 10% or less inside the containment bounds gets
\* the sentinel score -100, whatever bonuses apply.
C6_OutsideBoundsIsSentinel ==
    \A p \in Calls :
        HasScored(p) /\ AtMostTenthInside(p) => Scored(p).score = Sentinel(p)

RECURSIVE AddAll(_, _, _)
\* lines 133-149: the loop over request.elements, run to its end
AddAll(g, req, elems) ==
    IF elems = <<>> THEN g
    ELSE AddAll(AddRequestElement(g, req, Head(elems)), req, Tail(elems))

\* lines 126-149: the grid a call builds for a request
BuiltGrid(req) ==
    AddAll(SpatialGrid(req.canvas_size.w, req.canvas_size.h, GRID_SIZE),
           req, req.elements)

\* the total overlap area of the existing elements with a rectangle: the
\* numerator of the collision-overlap fraction
TotalOverlap(g, rect) == SumOverlap(g.all_elements, rect)

\* the score the candidate of call p gets on another grid
ScoreOn(p, g) ==
    score_placement(ConstraintScorer(request[p].canvas_size.w, request[p].canvas_size.h,
                                     g, subject_rect[p]),
                    Scored(p).x, Scored(p).y, request[p].element_to_place.width,
                    request[p].element_to_place.height,
                    request[p].element_to_place.type).score

\* grid g has the densities of the grid of call p and overlaps its candidate
\* at least as much
SameDensitiesMoreOverlap(p, g) ==
    /\ get_density_map(g) = get_density_map(grid[p])
    /\ TotalOverlap(g, PlacedRect(p)) >= TotalOverlap(grid[p], PlacedRect(p))

AlternativeGrids(p) ==
    { BuiltGrid([request[p] EXCEPT !.elements = els]) :
        els \in SubSeqs(ScorePool, MaxElements) }

\* C10: with the position, size, element type, containment bounds and grid
\* densities fixed, a score is never higher on a grid whose elements overlap
\* the candidate more.
C10_CollisionMonotone ==
    \A p \in Calls :
        HasScored(p) /\ ScoredInCanvas(p) =>
            \A g \in AlternativeGrids(p) :
                SameDensitiesMoreOverlap(p, g) => ScoreOn(p, g) <= Scored(p).score

\* two grids of equal densities on which the same candidate overlaps more
\* and scores strictly less
C10_Witness ==
    /\ HasScored(1)
    /\ ScoredInCanvas(1)
    /\ \E g \in AlternativeGrids(1) :
          /\ SameDensitiesMoreOverlap(1, g)
          /\ TotalOverlap(g, PlacedRect(1)) > TotalOverlap(grid[1], PlacedRect(1))
          /\ ScoreOn(1, g) < Scored(1).score

(***************************************************************************)
(* Properties of repeated and concurrent calls                             *)
(***************************************************************************)
\* what generate_candidates returns for a request handled alone
SoloCandidates(req) ==
    CandidatesOf(req, BuiltGrid(req), SubjectRect(req))

\* what smart_placement returns for a request handled alone
SoloResponse(req) == ResponseOf(req, SoloCandidates(req))

Generated(p) ==
    \/ pc[p] = "respond"
    \/ pc[p] = "done" /\ fault[p] \in {"none", "respond"}

\* C8: invocations on identical requests produce the same ranked candidate
\* list and the same response: the list and the response of a call are
\* those of its request handled alone, whatever ran before or meanwhile.
C8_Deterministic ==
    /\ \A p \in Calls : Generated(p) => candidates[p] = SoloCandidates(request[p])
    /\ \A p, q \in Calls :
          request[p] = request[q] =>
              /\ Generated(p) /\ Generated(q) => candidates[p] = candidates[q]
              /\ Answered(p) /\ Answered(q) => responses[p] = responses[q]

\* two calls on the same request with existing elements, both answered from
\* a non-empty list
C8_Witness ==
    /\ Answered(1)
    /\ Answered(2)
    /\ request[1] = request[2]
    /\ request[1].elements # <<>>
    /\ candidates[1] # <<>>

\* the variables of the calls
call_vars == <<pc, request, fault, grid, idx, subject_rect, candidates, responses, log>>

Built(p) == pc[p] \in {"generate", "respond", "done"}

\* C9: under any interleaving of calls, and after any earlier calls, each
\* call works on the grid and the containment bounds it built from its own
\* request and returns the response it would return alone; the rate limiter
\* changes in no step of a call.
C9_NoSharedState ==
    /\ [](\A p \in Calls :
            /\ Built(p) /\ fault[p] \notin {"build", "elements"} =>
                 /\ grid[p] = BuiltGrid(request[p])
                 /\ subject_rect[p] = SubjectRect(request[p])
            /\ Answered(p) => responses[p] = <<SoloResponse(request[p])>>)
    /\ [][rate_limiter' # rate_limiter => UNCHANGED call_vars]_vars

\* one call has answered while the other is under way on another request
\* and the rate limiter has been used
C9_Witness ==
    /\ Answered(1)
    /\ request[1].elements # <<>>
    /\ pc[2] = "generate"
    /\ request[2] # request[1]
    /\ rate_limiter # 0

(***************************************************************************)
(* Properties of generate_candidates                                       *)
(***************************************************************************)
\* generate_candidates has returned its list
Finished(p) == pc[p] \in {"respond", "done"}
\* the list was not cut at max_candidates
NotCut(p) == Len(candidates[p]) = Len(unique[p])

SamePlace(a, b) == a.x = b.x /\ a.y = b.y
\* the Euclidean distance of two candidates is less than px pixels
CloserThan(a, b, px) ==
    (a.x - b.x) * (a.x - b.x) + (a.y - b.y) * (a.y - b.y) < Px(px) * Px(px)
\* the returned list has an entry at the position of candidate c
Survives(p, c) == \E k \in 1 .. Len(candidates[p]) : SamePlace(candidates[p][k], c)

NoTwoClose(p) ==
    \A a, b \in 1 .. Len(candidates[p]) :
        a # b => ~CloserThan(candidates[p][a], candidates[p][b], DEDUP_TOLERANCE)

\* C11 as stated: of any two proposed candidates closer than 10px the one
\* generated first survives and the other does not, and no two entries of the
\* returned list are closer than 10px.
C11_FirstOfPairSurvives ==
    \A p \in Calls :
        Finished(p) /\ NotCut(p) =>
            /\ \A i, j \in 1 .. Len(proposed[p]) :
                   i < j /\ CloserThan(proposed[p][i], proposed[p][j], DEDUP_TOLERANCE)
                   => /\ Survives(p, proposed[p][i])
                      /\ SamePlace(proposed[p][i], proposed[p][j])
                         \/ ~Survives(p, proposed[p][j])
            /\ NoTwoClose(p)

\* C11, amended: no two entries of the returned list are closer than 10px,
\* and, unless the list was cut at max_candidates, every proposed candidate
\* is in the list or is closer than 10px to a candidate proposed before it
\* that is in the list (the first candidate of a cluster is the one kept).
C11_DedupKeepsFirstOfCluster ==
    \A p \in Calls :
        Finished(p) =>
            /\ NoTwoClose(p)
            /\ NotCut(p) =>
                  \A j \in 1 .. Len(proposed[p]) :
                      \E i \in 1 .. j :
                          /\ CloserThan(proposed[p][i], proposed[p][j], DEDUP_TOLERANCE)
                          /\ Survives(p, proposed[p][i])

\* a list in which the first of two close candidates was itself dropped,
\* and the second one kept
C11_Witness ==
    /\ Finished(1) /\ NotCut(1)
    /\ \E i, j \in 1 .. Len(proposed[1]) :
          /\ i < j
          /\ CloserThan(proposed[1][i], proposed[1][j], DEDUP_TOLERANCE)
          /\ ~Survives(1, proposed[1][i])
          /\ Survives(1, proposed[1][j])

\* the candidates of call p after scoring and before sorting, lines 99-106
ScoredOf(p) ==
    ScoreAll(GeneratorOf(p), unique[p], request[p].element_to_place.width,
             request[p].element_to_place.height, request[p].element_to_place.type)

\* the place entry k of the scored list has in a descending, stable order:
\* after every entry of higher score and every earlier entry of equal score
RankOf(scored_candidates, k) ==
    1 + Cardinality({ i \in 1 .. Len(scored_candidates) :
                        \/ scored_candidates[i].score > scored_candidates[k].score
                        \/ /\ scored_candidates[i].score = scored_candidates[k].score
                           /\ i < k })

IsRankingOf(ranked, scored_candidates, limit) ==
    /\ Len(ranked) = Min(limit, Len(scored_candidates))
    /\ \A k \in 1 .. Len(scored_candidates) :
          RankOf(scored_candidates, k) <= limit
          => ranked[RankOf(scored_candidates, k)] = scored_candidates[k]

\* C12: the list generate_candidates returns is in descending order of score,
\* candidates of equal score are in generation order, and the list holds the
\* max_candidates highest-ranked candidates (all of them when there are fewer).
C12_RankedStableAndCut ==
    \A p \in Calls :
        Finished(p) =>
            /\ \A a, b \in 1 .. Len(candidates[p]) :
                   a < b => candidates[p][a].score >= candidates[p][b].score
            /\ Len(candidates[p]) <= max_candidates[p]
            /\ IsRankingOf(candidates[p], ScoredOf(p), max_candidates[p])

\* a returned list that was cut at max_candidates and whose first two
\* entries, of two strategies, have the same score
C12_Witness ==
    /\ Finished(1)
    /\ Len(unique[1]) > max_candidates[1]
    /\ Len(candidates[1]) = max_candidates[1]
    /\ candidates[1][1].score = candidates[1][2].score
    /\ candidates[1][1].method # candidates[1][2].method

(***************************************************************************)
(* The scenarios                                                           *)
(***************************************************************************)
\* the first entry of the list generate_candidates returned to call p
Best(p) == candidates[p][1]
\* a score of n points of the element call p places
Points(p, n) ==
    n * ScoreUnit(request[p].element_to_place.width, request[p].element_to_place.height)

\* C13, scenario A: for a 600x120 headline on an empty 1080x1920 canvas the
\* top-ranked candidate has score 100 and y <= 1920 * 0.30 - 120.
C13_ScenarioA ==
    \A p \in Calls :
        Finished(p) /\ request[p] = ScenarioA =>
            /\ candidates[p] # <<>>
            /\ Best(p).score = Points(p, MAX_SCORE)
            /\ 10 * (Best(p).y + Px(120)) <= 3 * Px(1920)

\* scenario A has been answered from the simple grid, cut at 100 candidates
C13_Witness ==
    /\ Finished(1) /\ request[1] = ScenarioA
    /\ Len(candidates[1]) = MAX_CANDIDATES
    /\ Best(1).method = "grid"

\* the rectangle of scenario B, the image and the subject bounds
ScenarioBRect == Rectangle(Px(200), Px(150), Px(350), Px(450))

\* C14, scenario B: for a 100x100 badge on an 800x600 canvas whose image
\* (200,150,350,450) is also the subject bounds, the best position is the
\* bottom-left corner of that rectangle: the badge lies inside it, within the
\* corner margin of its left edge and of its bottom edge.
C14_ScenarioB ==
    \A p \in Calls :
        Finished(p) /\ request[p] = ScenarioB =>
            /\ candidates[p] # <<>>
            /\ Best(p).x >= ScenarioBRect.x
            /\ Best(p).x - ScenarioBRect.x <= Px(GRID_MARGIN)
            /\ Best(p).x + Px(100) <= x2(ScenarioBRect)
            /\ Best(p).y >= ScenarioBRect.y
            /\ Best(p).y + Px(100) <= y2(ScenarioBRect)
            /\ y2(ScenarioBRect) - (Best(p).y + Px(100)) <= Px(GRID_MARGIN)

\* scenario B has been answered with a corner of the bounds, the other
\* corner having the same score
C14_Witness ==
    /\ Finished(1) /\ request[1] = ScenarioB
    /\ Len(candidates[1]) >= 2
    /\ Best(1).method = "grid-corner"
    /\ candidates[1][2].method = "grid-corner"
    /\ candidates[1][2].score = Best(1).score

\* the request without its existing elements: nothing to collide with
WithoutElements(req) == [req EXCEPT !.elements = <<>>]

BestIsLowerThan(p, free) ==
    candidates[p] # <<>> /\ free # <<>> => Best(p).score < free[1].score

\* C15, scenario C: when the existing elements cover the whole 800x600
\* canvas, so that every candidate collides, the best score is strictly lower
\* than the best score of the same request without the elements.
C15_ScenarioC ==
    \A p \in Calls :
        Finished(p) /\ request[p] \in ScenarioC =>
            BestIsLowerThan(p, SoloCandidates(WithoutElements(request[p])))

(***************************************************************************)
(* Clamping in smart_placement                                             *)
(***************************************************************************)
\* the grid and the scorer of call p are built
ScorerBuilt(p) == pc[p] \in {"generate", "dedup", "score", "respond"}

\* v moved into [0, hi]
Into(v, hi) == IF v < 0 THEN 0 ELSE IF v > hi THEN hi ELSE v

\* the rectangle r of the request, of a size that fits the canvas, moved
\* into the canvas
MovedInto(r, canvas_size) ==
    Rectangle(Into(r.x, canvas_size.w - r.width), Into(r.y, canvas_size.h - r.height),
              r.width, r.height)

FitsCanvas(r, canvas_size) == r.width <= canvas_size.w /\ r.height <= canvas_size.h

\* C16: once the grid and the scorer are built, every existing element and
\* the subject bounds (of a size that fits the canvas) have kept their
\* requested size and have x in [0, canvas_width - width] and y in
\* [0, canvas_height - height], moved there from outside, so they lie inside
\* the canvas.
C16_ClampedInsideCanvas ==
    \A p \in Calls :
        ScorerBuilt(p) =>
            /\ \A i \in 1 .. Len(request[p].elements) :
                   FitsCanvas(request[p].elements[i], request[p].canvas_size)
                   => grid[GridOf(p)].all_elements[i].rect
                        = MovedInto(request[p].elements[i], request[p].canvas_size)
            /\ request[p].subject_bounds # None
               /\ FitsCanvas(request[p].subject_bounds[1], request[p].canvas_size)
               => subject_rect[p]
                    = Some(MovedInto(request[p].subject_bounds[1], request[p].canvas_size))

\* the clamping log of call p has a line for this rectangle
Logged(p, name) == \E k \in 1 .. Len(log[p]) : log[p][k] = name

\* C17: whenever smart_placement has changed a coordinate of an existing
\* element or of the subject bounds by clamping, from a negative value or
\* from beyond the far edge, a clamping log line was emitted for it.
C17_ClampingIsLogged ==
    \A p \in Calls :
        /\ pc[p] \in {"elements", "generate", "respond"} =>
              \A i \in 1 .. Len(grid[GridOf(p)].all_elements) :
                  \/ /\ grid[GridOf(p)].all_elements[i].rect.x = request[p].elements[i].x
                     /\ grid[GridOf(p)].all_elements[i].rect.y = request[p].elements[i].y
                  \/ Logged(p, request[p].elements[i].id)
        /\ pc[p] \in {"generate", "respond"} /\ request[p].subject_bounds # None =>
              \/ /\ subject_rect[p][1].x = request[p].subject_bounds[1].x
                 /\ subject_rect[p][1].y = request[p].subject_bounds[1].y
              \/ Logged(p, "subject_bounds")

(***************************************************************************)
(* Properties of SpatialGrid                                               *)
(***************************************************************************)
\* call p holds a grid it adds elements to
HasGrid(p) == pc[p] = "elements"

\* the element a request element becomes when added as it is
AsElement(elem) ==
    Element(Rectangle(elem.x, elem.y, elem.width, elem.height), elem.type, elem.id)

\* C18: after any sequence of add_element calls, all_elements holds each
\* added element once, in the order of the calls, and every element is in the
\* list of every cell its rectangle overlaps, also when it starts at negative
\* coordinates or reaches past the canvas.
C18_RegisteredInEveryOverlappingCell ==
    \A p \in Calls :
        HasGrid(p) =>
            /\ grid[GridOf(p)].all_elements
                 = [i \in 1 .. idx[p] - 1 |-> AsElement(request[p].elements[i])]
            /\ \A i \in 1 .. Len(grid[GridOf(p)].all_elements) :
                   \A rc \in Cells(GRID_SIZE) :
                       overlaps(grid[GridOf(p)].all_elements[i].rect,
                                CellRect(grid[GridOf(p)], rc))
                       => \E k \in 1 .. Len(grid[GridOf(p)].grid[rc]) :
                              grid[GridOf(p)].grid[rc][k] = grid[GridOf(p)].all_elements[i]

\* a grid with an element that starts left of the canvas and an element
\* that reaches past it, both in the cells they overlap
C18_Witness ==
    /\ HasGrid(1)
    /\ Len(grid[1].all_elements) = 2
    /\ grid[1].all_elements[1].rect.x < 0
    /\ x2(grid[1].all_elements[2].rect) > grid[1].canvas_width
    /\ Len(grid[1].grid[<<0, 1>>]) = 1
    /\ Len(grid[1].grid[<<2, 2>>]) = 1

UniqueIds(g) ==
    \A i, j \in 1 .. Len(g.all_elements) :
        i # j => g.all_elements[i].element_id # g.all_elements[j].element_id

\* a full linear scan of all_elements, filtered by overlaps
LinearScan(g, region) ==
    LET Overlapping(e) == overlaps(e.rect, region)
    IN SelectSeq(g.all_elements, Overlapping)

\* C19: on a grid whose elements have unique ids, get_elements_in_region
\* returns, for any query rectangle, exactly the elements of all_elements
\* whose rectangle overlaps the query rectangle, each once: the result of a
\* full linear scan filtered by overlaps.
C19_RegionEqualsLinearScan ==
    \A p \in Calls :
        HasGrid(p) /\ found[p] # None /\ UniqueIds(grid[GridOf(p)]) =>
            found[p][1].elements = LinearScan(grid[GridOf(p)], found[p][1].region)

\* the occupied area of a cell summed over all the elements of the grid
OccupiedByAll(g, rc) == SumOverlap(g.all_elements, CellRect(g, rc))

\* C20: for every cell, get_density_map returns the sum over all elements of
\* the grid of overlap_area(element, cell) divided by the cell area (the
\* densities are carried as occupied areas); the value is not capped and
\* exceeds 1.0 where overlapping elements cover a cell more than once.
C20_DensityIsTotalOverlap ==
    \A p \in Calls :
        HasGrid(p) /\ density[p] # None =>
            \A rc \in Cells(GRID_SIZE) :
                density[p][1][rc] = OccupiedByAll(grid[GridOf(p)], rc)

\* a density map whose centre cell is covered more than once, by an element
\* that several cells hold, while another cell is partly covered
C20_Witness ==
    /\ HasGrid(1) /\ density[1] # None
    /\ density[1][1][<<1, 1>>] > cell_area(grid[1])
    /\ density[1][1][<<0, 0>>] > 0
    /\ density[1][1][<<0, 0>>] < cell_area(grid[1])

(***************************************************************************)
(* The strategies of generate_candidates                                   *)
(***************************************************************************)
\* the strategies have appended their candidates, and the call has not returned
HasProposed(p) == pc[p] \in {"dedup", "score", "respond", "done"}

\* the conventional placements of _generate_type_specific for call p
TypeSpecificOf(p) ==
    generate_type_specific(GeneratorOf(p), request[p].element_to_place.width,
                           request[p].element_to_place.height,
                           request[p].element_to_place.type)

IsProposed(p, c) == \E i \in 1 .. Len(proposed[p]) : SamePlace(proposed[p][i], c)

StrategyMethods ==
    {"space-analysis", "grid", "grid-top", "grid-bottom", "grid-corner",
     "anchor-below-headline", "anchor-centered", "anchor-badge", "anchor-below",
     "anchor-above", "anchor-right", "anchor-left"}

\* C21 as stated: the conventional placements of the type-specific strategy
\* are always among the candidates that get deduplicated and scored.
C21_TypeSpecificAlwaysProposed ==
    \A p \in Calls :
        HasProposed(p) =>
            \A i \in 1 .. Len(TypeSpecificOf(p)) : IsProposed(p, TypeSpecificOf(p)[i])

\* C21, amended: generate_candidates does not run the type-specific strategy;
\* every candidate that gets deduplicated and scored was proposed by the
\* space analysis, the grid sampling or the anchoring, so a conventional
\* placement for the element type is among them only where one of these
\* three strategies proposes the same position.
C21_OnlyThreeStrategies ==
    \A p \in Calls :
        HasProposed(p) =>
            \A i \in 1 .. Len(proposed[p]) : proposed[p][i].method \in StrategyMethods

\* a call with subject bounds and elements whose candidates, of the space
\* analysis, the grid and the anchoring, lack a conventional placement
C21_Witness ==
    /\ HasProposed(1)
    /\ request[1].subject_bounds # None
    /\ \E m \in {"space-analysis", "grid-corner", "anchor-badge"} :
          \E i \in 1 .. Len(proposed[1]) : proposed[1][i].method = m
    /\ \E j \in 1 .. Len(TypeSpecificOf(1)) : ~IsProposed(1, TypeSpecificOf(1)[j])

(***************************************************************************)
(* The hierarchy penalty                                                   *)
(***************************************************************************)
\* ratio > num / 100, where ratio = y / canvas_height
RatioAbove(y, canvas_height, num) == 100 * y > num * canvas_height
RatioBelow(y, canvas_height, num) == 100 * y < num * canvas_height

\* the penalty C22 states, in points, from the element type and the ratio
StatedHierarchyPenalty(element_type, y, canvas_height) ==
    IF element_type = "headline" /\ RatioAbove(y, canvas_height, 30) THEN 50
    ELSE IF element_type = "subheading" /\ RatioAbove(y, canvas_height, 50) THEN 15
    ELSE IF element_type = "badge" /\ RatioAbove(y, canvas_height, 30)
            /\ RatioBelow(y, canvas_height, 70) THEN 10
    ELSE 0

HierarchyMessages ==
    {"Headline too low", "Subheading too low", "Badge in middle (prefer corners)"}

\* the score of call p's candidate, had the hierarchy penalty been penalty
ScoreWithHierarchy(p, penalty) ==
    ScoredCandidate(
        Scored(p).x, Scored(p).y, UnitOf(request[p]), <<penalty, "">>,
        check_collision(ScorerOf(p), PlacedRect(p)),
        check_subject_bounds_containment(ScorerOf(p), PlacedRect(p),
                                         request[p].element_to_place.type),
        is_grid_aligned(Scored(p).x, Scored(p).y, ALIGN_GRID),
        is_in_empty_region(ScorerOf(p), PlacedRect(p)),
        has_good_margins(ScorerOf(p), Scored(p).x, Scored(p).y,
                         request[p].element_to_place.width,
                         request[p].element_to_place.height, Px(GOOD_MARGIN))).score

CollisionOf(p) == check_collision(ScorerOf(p), PlacedRect(p))[1]

\* C23: the collision penalty _check_collision computes is between 0 and 40
\* points, for any existing elements, overlapping each other or not, and any
\* candidate rectangle.
C23_CollisionPenaltyRange ==
    \A p \in Calls :
        HasScored(p) /\ ScoredInCanvas(p) =>
            /\ 0 <= CollisionOf(p)
            /\ CollisionOf(p) <= WEIGHT_COLLISION * UnitOf(request[p])

(***************************************************************************)
(* Properties of the space analyzer                                        *)
(***************************************************************************)
HasAnalyzed(p) == pc[p] = "generate" /\ free_regions[p] # None
FreeRegions(p) == free_regions[p][1]

\* the area of the region that the elements of the grid occupy, an area
\* under two elements counted twice
Occupied(p, region) == SumOverlap(grid[GridOf(p)].all_elements, region.rect)

\* area * (1 - density)
Usable(region) == region.area - region.density

RankedByUsable(regions) ==
    \A i, j \in 1 .. Len(regions) : i < j => Usable(regions[i]) >= Usable(regions[j])

\* C24 as stated: the density of every region is its occupied fraction, the
\* sum of the overlap areas of the elements divided by the region area,
\* without a cap, and the regions are ranked by area * (1 - density).
C24_DensityNotCapped ==
    \A p \in Calls :
        HasAnalyzed(p) =>
            /\ \A i \in 1 .. Len(FreeRegions(p)) :
                   FreeRegions(p)[i].density = Occupied(p, FreeRegions(p)[i])
            /\ RankedByUsable(FreeRegions(p))

\* C24, amended: the density of a region around the subject is its occupied
\* fraction capped at 1.0 (where overlapping elements cover it more than once
\* the density is 1.0 and the region ranks with area * (1 - density) = 0); the
\* "full" region, reported when no image element exists, has density 0.0; the
\* regions are ranked by area * (1 - density).
C24_DensityCapped ==
    \A p \in Calls :
        HasAnalyzed(p) =>
            /\ \A i \in 1 .. Len(FreeRegions(p)) :
                   LET region == FreeRegions(p)[i]
                   IN /\ region.area = area(region.rect)
                      /\ region.density =
                           IF region.region_type = "full" THEN 0
                           ELSE Min(region.area, Occupied(p, region))
            /\ RankedByUsable(FreeRegions(p))

\* a region that two texts cover more than once: its density is 1.0
C24_Witness ==
    /\ HasAnalyzed(1)
    /\ \E i \in 1 .. Len(FreeRegions(1)) :
          /\ Occupied(1, FreeRegions(1)[i]) > FreeRegions(1)[i].area
          /\ FreeRegions(1)[i].density = FreeRegions(1)[i].area
          /\ Usable(FreeRegions(1)[i]) = 0

HasPositions(p) == pc[p] = "generate" /\ positions[p] # None
Locals(p) == positions[p][1]

\* the containment bounds: subject_bounds as handed to the analyzer, or the canvas
ContainmentBounds(p) ==
    IF subject_rect[p] # None THEN subject_rect[p][1]
    ELSE Rectangle(0, 0, request[p].canvas_size.w, request[p].canvas_size.h)

\* the element of call p, placed at xy, lies entirely inside bounds
ElementInside(p, xy, bounds) ==
    /\ bounds.x <= xy[1]
    /\ xy[1] + request[p].element_to_place.width <= x2(bounds)
    /\ bounds.y <= xy[2]
    /\ xy[2] + request[p].element_to_place.height <= y2(bounds)

\* the position computed in a region for the element of call p
PositionIn(p, region) ==
    calculate_position_in_region(region, request[p].element_to_place.width,
                                 request[p].element_to_place.height,
                                 request[p].element_to_place.type)

\* the first three viable regions whose position stays inside the bounds
KeptRegions(p) ==
    { k \in 1 .. Min(TOP_REGIONS, Len(Locals(p).viable_regions)) :
        ElementInside(p, PositionIn(p, Locals(p).viable_regions[k]), ContainmentBounds(p)) }

\* C25: get_best_position_for_element returns at most three positions, the
\* positions computed in the first three viable regions, in their order,
\* without those that leave the containment bounds; every returned position
\* keeps the element entirely inside the containment bounds.
C25_PositionsInsideBounds ==
    \A p \in Calls :
        HasPositions(p) =>
            /\ Len(Locals(p).positions) <= TOP_REGIONS
            /\ Len(Locals(p).positions) = Cardinality(KeptRegions(p))
            /\ \A i \in 1 .. Len(Locals(p).positions) :
                   /\ ElementInside(p, Locals(p).positions[i], ContainmentBounds(p))
                   /\ \E k \in KeptRegions(p) :
                         /\ Cardinality({ j \in KeptRegions(p) : j < k }) = i - 1
                         /\ Locals(p).viable_regions[k].region_type = Locals(p).positions[i][3]
                         /\ PositionIn(p, Locals(p).viable_regions[k])
                              = <<Locals(p).positions[i][1], Locals(p).positions[i][2]>>

\* four viable regions around a subject in the middle, three positions
C25_Witness ==
    /\ HasPositions(1)
    /\ Len(Locals(1).viable_regions) = 4
    /\ Len(Locals(1).positions) = TOP_REGIONS

\* no region can fit the element of call p, with margin 60 or with margin 20
NoneFits(p, regions) ==
    \A i \in 1 .. Len(regions) :
        /\ ~can_fit(regions[i], request[p].element_to_place.width,
                    request[p].element_to_place.height, Px(FIT_MARGIN))
        /\ ~can_fit(regions[i], request[p].element_to_place.width,
                    request[p].element_to_place.height, Px(FIT_MARGIN_SMALL))

\* C26: when free regions exist and none can fit the element with margin 60
\* or 20, a headline or subheading gets an empty position list, and any other
\* element type falls back to exactly one region, the largest free region by
\* area.
C26_FallbackToLargestRegion ==
    \A p \in Calls :
        HasPositions(p) /\ Locals(p).free_regions # <<>>
        /\ NoneFits(p, Locals(p).free_regions) =>
            IF request[p].element_to_place.type \in {"headline", "subheading"}
            THEN Locals(p).positions = <<>> /\ Locals(p).viable_regions = <<>>
            ELSE /\ Len(Locals(p).viable_regions) = 1
                 /\ \A i \in 1 .. Len(Locals(p).free_regions) :
                        Locals(p).viable_regions[1].area >= Locals(p).free_regions[i].area

(***************************************************************************)
(* The rectangles of a call                                                *)
(***************************************************************************)
Positive(r) == r.width > 0 /\ r.height > 0

\* C27: every Rectangle a call constructs has width > 0 and height > 0: the
\* rectangles of the existing elements, the clamped subject_bounds handed to
\* the scorer and the space analyzer, every free-space region and the
\* rectangle of the candidates that are scored.
C27_RectanglesArePositive ==
    \A p \in Calls :
        pc[p] = "generate" =>
            /\ \A i \in 1 .. Len(grid[GridOf(p)].all_elements) :
                   Positive(grid[GridOf(p)].all_elements[i].rect)
            /\ subject_rect[p] # None => Positive(subject_rect[p][1])
            /\ free_regions[p] # None =>
                   \A i \in 1 .. Len(FreeRegions(p)) : Positive(FreeRegions(p)[i].rect)
            /\ Positive(request[p].element_to_place)

(***************************************************************************)
(* An element that fits the canvas                                         *)
(***************************************************************************)
\* no subject_bounds, and the element fits the canvas with 50px margins
FitsWithMargins(req) ==
    /\ req.subject_bounds = None
    /\ req.element_to_place.width <= req.canvas_size.w - Px(100)
    /\ req.element_to_place.height <= req.canvas_size.h - Px(100)

\* C28: without subject_bounds, for an element that fits the canvas with
\* 50px margins on every side, the response is never the fallback: the
\* candidate list is not empty, its top candidate has a score of 0 or more,
\* the returned integer position keeps the element inside the canvas and the
\* confidence is in [0, 1].
C28_FittingElementIsPlaced ==
    \A p \in Calls :
        Answered(p) /\ FitsWithMargins(request[p]) =>
            /\ candidates[p] # <<>>
            /\ candidates[p][1].score >= 0
            /\ Answer(p) # FallbackResponse(request[p])
            /\ InCanvas(Px(Answer(p).x), Px(Answer(p).y),
                        request[p].element_to_place.width,
                        request[p].element_to_place.height, request[p].canvas_size)
            /\ 0 <= Answer(p).confidence
            /\ Answer(p).confidence <= MAX_SCORE * UnitOf(request[p])

\* a headline that just fits, next to an image: the only candidate inside
\* the canvas is the one of the simple grid, the others are out of bounds
C28_Witness ==
    /\ Answered(1) /\ FitsWithMargins(request[1])
    /\ request[1].element_to_place.width = request[1].canvas_size.w - Px(100)
    /\ request[1].elements # <<>>
    /\ Len(candidates[1]) > 1
    /\ candidates[1][1].method = "grid"
    /\ \A k \in 2 .. Len(candidates[1]) :
           candidates[1][k].score = INVALID_SCORE * UnitOf(request[1])

(***************************************************************************)
(* Candidates inside and outside the containment bounds                    *)
(***************************************************************************)
CandidateRect(p, c) ==
    Rectangle(c.x, c.y, request[p].element_to_place.width,
              request[p].element_to_place.height)

\* no part of the candidate lies inside the containment bounds
CompletelyOutside(p, c) == InsideArea(CandidateRect(p, c), subject_rect[p][1]) = 0

\* the candidate is in the canvas and at least 95% of it is inside the bounds
FullyInside(p, c) ==
    /\ InCanvas(c.x, c.y, request[p].element_to_place.width,
                request[p].element_to_place.height, request[p].canvas_size)
    /\ 100 * InsideArea(CandidateRect(p, c), subject_rect[p][1])
         >= 95 * area(CandidateRect(p, c))

\* C29: with subject_bounds, no candidate completely outside the containment
\* bounds comes before an in-canvas candidate that is fully (at least 95%)
\* inside them in the list generate_candidates returns, so the placement
\* chosen is not outside the bounds when such a candidate is in the list.
C29_OutsideNeverOutranksInside ==
    \A p \in Calls :
        Finished(p) /\ subject_rect[p] # None =>
            /\ \A i, j \in 1 .. Len(candidates[p]) :
                   i < j => ~(/\ CompletelyOutside(p, candidates[p][i])
                              /\ FullyInside(p, candidates[p][j]))
            /\ (\E j \in 1 .. Len(candidates[p]) : FullyInside(p, candidates[p][j]))
               => ~CompletelyOutside(p, candidates[p][1])

(***************************************************************************)
(* The regions around the subject                                          *)
(***************************************************************************)
\* the images of the grid, and the subject: the first of the largest images
Images(g) ==
    { i \in 1 .. Len(g.all_elements) :
        g.all_elements[i].element_type = "image" /\ area(g.all_elements[i].rect) > 0 }

HasSubject(p) == Images(grid[GridOf(p)]) # {}

Subject(p) ==
    LET g == grid[GridOf(p)]
        k == CHOOSE i \in Images(g) :
                 \A j \in Images(g) :
                     \/ area(g.all_elements[j].rect) < area(g.all_elements[i].rect)
                     \/ area(g.all_elements[j].rect) = area(g.all_elements[i].rect) /\ i <= j
    IN g.all_elements[k].rect

Within(r, bounds) ==
    /\ bounds.x <= r.x /\ x2(r) <= x2(bounds)
    /\ bounds.y <= r.y /\ y2(r) <= y2(bounds)

\* the region keeps the margin from the subject on the side it is named after
KeepsMargin(region, subject, margin) ==
    /\ region.region_type \in {"top", "bottom", "left", "right"}
    /\ region.region_type = "top" => y2(region.rect) <= subject.y - margin
    /\ region.region_type = "bottom" => region.rect.y >= y2(subject) + margin
    /\ region.region_type = "left" => x2(region.rect) <= subject.x - margin
    /\ region.region_type = "right" => region.rect.x >= x2(subject) + margin

\* C30: when a subject exists, every region analyze_free_space returns is
\* wider and higher than 80px, lies inside the containment bounds, does not
\* overlap the subject and keeps the 40px margin from it on the side it is
\* named after; the regions are in descending order of area * (1 - density).
C30_RegionsAroundSubject ==
    \A p \in Calls :
        HasAnalyzed(p) /\ HasSubject(p) =>
            /\ \A i \in 1 .. Len(FreeRegions(p)) :
                   /\ FreeRegions(p)[i].rect.width > Px(MIN_REGION)
                   /\ FreeRegions(p)[i].rect.height > Px(MIN_REGION)
                   /\ Within(FreeRegions(p)[i].rect, ContainmentBounds(p))
                   /\ ~overlaps(FreeRegions(p)[i].rect, Subject(p))
                   /\ KeepsMargin(FreeRegions(p)[i], Subject(p), Px(REGION_MARGIN))
            /\ RankedByUsable(FreeRegions(p))

\* regions of different usable space inside subject bounds, one of them cut
\* at the edge of the bounds
C30_Witness ==
    /\ HasAnalyzed(1) /\ HasSubject(1)
    /\ subject_rect[1] # None
    /\ Len(FreeRegions(1)) >= 2
    /\ Usable(FreeRegions(1)[1]) > Usable(FreeRegions(1)[2])
    /\ \E i \in 1 .. Len(FreeRegions(1)) :
          /\ FreeRegions(1)[i].region_type = "top"
          /\ y2(FreeRegions(1)[i].rect) = y2(subject_rect[1][1])
          /\ y2(FreeRegions(1)[i].rect) < Subject(1).y - Px(REGION_MARGIN)

====
